---- MODULE Spec2Model ----
(***************************************************************************)
(* Sprite Builder (src/src/App.jsx): the row packer (repackSprites), the   *)
(* URL-hash codec (serializeSprites / deserializeSprites), the session     *)
(* state the handlers of the App component read and write, the drawing of  *)
(* the composite, the session persisted in IndexedDB and the generated     *)
(* code.                                                                   *)
(*                                                                         *)
(* Texts (names, the location hash) are sequences of one-character         *)
(* strings, so that splitting, prefix tests and number parsing are         *)
(* computed character by character as the JavaScript does.                 *)
(***************************************************************************)
EXTENDS Integers, Sequences, FiniteSets, TLC

VARIABLES
    now,              \* Date.now(), in milliseconds
    rnd,              \* number of Math.random() draws made so far
    hash,             \* window.location.hash
    mounted,          \* the mount effects have run
    mode,             \* useState('analyze')
    imageSrc,         \* what the blob URL of the sheet points at, or NoImage
    imageDimensions,  \* { width, height }
    sprites,          \* the rectangle list
    buildItems,       \* the pending items of build mode
    isDrawing,        \* a mouse drag is in progress
    startPos,         \* where the drag started, in half pixels
    currentRect,      \* the rectangle being dragged, or NoRect
    loads,            \* pasted or uploaded images whose decode has not finished
    draws,            \* drawComposite calls scheduled by repackSprites
    explode,          \* the explodeSprites call in flight, or Idle
    canvas,           \* the drawComposite call followed item by item, or Idle
    metaStore,        \* IndexedDB store 'session', key 'meta': a record or Null
    imageStore,       \* IndexedDB store 'images', key 'composite': a blob or Null
    timers,           \* pending timeouts of the debounced save effect
    saves,            \* fetches and triggerSave calls in flight
    reset,            \* where the last clearAll stands, see ClearAll
    loadClosures,     \* for each entry of loads, the state its handler closed over
    drawClosures,     \* for each entry of draws, the state drawComposite closed over
    isSaving,         \* useState(false): a triggerSave call has not ended
    lastSaved,        \* useState(null): when the last save or restore ended, or Null
    codeMode,         \* useState('scss'): the format of the generated code
    clipboard         \* what copyToClipboard wrote last, or Null

vars == <<now, rnd, hash, mounted, mode, imageSrc, imageDimensions, sprites,
          buildItems, isDrawing, startPos, currentRect, loads, draws, explode,
          canvas, metaStore, imageStore, timers, saves, reset,
          loadClosures, drawClosures,
          isSaving, lastSaved, codeMode, clipboard>>

----------------------------------------------------------------------------
(* Bounds of the model *)

MaxItems == 3        \* longest item list handed to repackSprites in SpecPack
MaxRandom == 2       \* Math.random() draws in one behaviour

----------------------------------------------------------------------------
(* Small helpers *)

Max(a, b) == IF a >= b THEN a ELSE b

Range(s) == {s[i] : i \in 1..Len(s)}

SeqsUpTo(S, n) == UNION {[1..k -> S] : k \in 0..n}

NoRect == [none |-> TRUE]
NoImage == [none |-> TRUE]
Origin == [x |-> 0, y |-> 0]
Idle == [active |-> FALSE]
ZeroDimensions == [width |-> 0, height |-> 0]

----------------------------------------------------------------------------
(* Identifiers.  An id is Date.now(), Date.now() + an index, or Date.now() +
   Math.random().  Ids are held in units of 1 / IdScale millisecond, so that
   the fraction Math.random() adds is a whole number below IdScale.
   Math.random() is taken never to return 0 nor the same value twice: the
   k-th draw of a behaviour adds the fraction k / IdScale. *)

IdScale == MaxRandom + 1

MsId(ms) == ms * IdScale

RandomId_ClockOnly(ms, k) == ms * IdScale

RandomId(ms, k) == ms * IdScale + k

----------------------------------------------------------------------------
(* repackSprites: row-based packing, App.jsx 162-213 *)

padding == 2
MinRowWidth == 512
MaxRowWidth == 4096

RECURSIVE TotalArea(_)
TotalArea(items) ==
    IF items = <<>> THEN 0
    ELSE Head(items).w * Head(items).h + TotalArea(Tail(items))

(* s > maxWidth, where maxWidth = min(4096, max(512, sqrt(totalArea) * 1.5)).
   For integers s >= 0:  s > sqrt(A) * 1.5  <=>  4 s^2 > 9 A ;
   s > min(a, b) <=> s > a \/ s > b ;  s > max(a, b) <=> s > a /\ s > b.
   The test s > 4096 comes first so that s * s stays small. *)
ExceedsMaxWidth(s, totalArea) ==
    \/ s > MaxRowWidth
    \/ (s > MinRowWidth /\ 4 * s * s > 9 * totalArea)

PackStart ==
    [currentX |-> 0, currentY |-> 0, rowHeight |-> 0, maxCanvasWidth |-> 0,
     positionedItems |-> <<>>]

(* PlaceItem with the wrap advancing y by the padding only *)
PlaceItem_RowHeightForgotten(c, item, totalArea) ==
    LET wrap == ExceedsMaxWidth(c.currentX + item.w, totalArea) /\ c.currentX > 0
        x0   == IF wrap THEN 0 ELSE c.currentX
        y0   == IF wrap THEN c.currentY + padding ELSE c.currentY
        rh0  == IF wrap THEN 0 ELSE c.rowHeight
        pos  == [id |-> item.id, name |-> item.name, tag |-> item.tag,
                 w |-> item.w, h |-> item.h, imgElement |-> item.imgElement,
                 originalSrc |-> item.originalSrc, x |-> x0, y |-> y0]
        x1   == x0 + item.w + padding
    IN  [currentX |-> x1,
         currentY |-> y0,
         rowHeight |-> Max(rh0, item.h),
         maxCanvasWidth |-> Max(c.maxCanvasWidth, x1),
         positionedItems |-> Append(c.positionedItems, pos)]

(* PlaceItem with the wrap test missing its currentX > 0 conjunct *)
PlaceItem_WrapAtRowStart(c, item, totalArea) ==
    LET wrap == ExceedsMaxWidth(c.currentX + item.w, totalArea)
        x0   == IF wrap THEN 0 ELSE c.currentX
        y0   == IF wrap THEN c.currentY + c.rowHeight + padding ELSE c.currentY
        rh0  == IF wrap THEN 0 ELSE c.rowHeight
        pos  == [id |-> item.id, name |-> item.name, tag |-> item.tag,
                 w |-> item.w, h |-> item.h, imgElement |-> item.imgElement,
                 originalSrc |-> item.originalSrc, x |-> x0, y |-> y0]
        x1   == x0 + item.w + padding
    IN  [currentX |-> x1,
         currentY |-> y0,
         rowHeight |-> Max(rh0, item.h),
         maxCanvasWidth |-> Max(c.maxCanvasWidth, x1),
         positionedItems |-> Append(c.positionedItems, pos)]

(* One pass of the items.map callback, lines 176-192 *)
PlaceItem(c, item, totalArea) ==
    LET wrap == ExceedsMaxWidth(c.currentX + item.w, totalArea) /\ c.currentX > 0
        x0   == IF wrap THEN 0 ELSE c.currentX
        y0   == IF wrap THEN c.currentY + c.rowHeight + padding ELSE c.currentY
        rh0  == IF wrap THEN 0 ELSE c.rowHeight
        pos  == [id |-> item.id, name |-> item.name, tag |-> item.tag,
                 w |-> item.w, h |-> item.h, imgElement |-> item.imgElement,
                 originalSrc |-> item.originalSrc, x |-> x0, y |-> y0]
        x1   == x0 + item.w + padding
    IN  [currentX |-> x1,
         currentY |-> y0,
         rowHeight |-> Max(rh0, item.h),
         maxCanvasWidth |-> Max(c.maxCanvasWidth, x1),
         positionedItems |-> Append(c.positionedItems, pos)]

RECURSIVE PackUpTo(_, _, _)
PackUpTo(items, n, totalArea) ==
    IF n = 0 THEN PackStart
    ELSE PlaceItem(PackUpTo(items, n - 1, totalArea), items[n], totalArea)

PackCursor(items) == PackUpTo(items, Len(items), TotalArea(items))

(* item.tag || item.name : the empty text is falsy *)
TagOrName(item) == IF item.tag # <<>> THEN item.tag ELSE item.name

(* NewSprite taking item.name where the code takes item.tag || item.name *)
NewSprite_NameOnly(item) ==
    [id |-> item.id, name |-> item.name,
     x |-> item.x, y |-> item.y, w |-> item.w, h |-> item.h]

(* lines 200-207 *)
NewSprite(item) ==
    [id |-> item.id, name |-> TagOrName(item),
     x |-> item.x, y |-> item.y, w |-> item.w, h |-> item.h]

NewSprites_FirstOnly(positionedItems) ==
    <<NewSprite(positionedItems[1])>>

NewSprites(positionedItems) ==
    [i \in 1..Len(positionedItems) |-> NewSprite(positionedItems[i])]

FinalWidth(c) == c.maxCanvasWidth
FinalHeight(c) == c.currentY + c.rowHeight

(* The whole of repackSprites(items): the early return on an empty list,
   setImageDimensions, setSprites and the scheduled drawComposite. *)
repackSprites(items) ==
    IF Len(items) = 0
    THEN UNCHANGED <<imageDimensions, sprites, draws>>
    ELSE LET c == PackCursor(items) IN
         /\ imageDimensions' = [width |-> FinalWidth(c), height |-> FinalHeight(c)]
         /\ sprites' = NewSprites(c.positionedItems)
         /\ draws' = Append(draws, [stage |-> "scheduled",
                                    items |-> c.positionedItems,
                                    width |-> FinalWidth(c),
                                    height |-> FinalHeight(c)])

----------------------------------------------------------------------------
(* Texts: sequences of one-character strings *)

DigitChars == <<"0", "1", "2", "3", "4", "5", "6", "7", "8", "9">>
HexLetters == <<"a", "b">>

IsDigit(c) == \E i \in 1..10 : DigitChars[i] = c
DigitVal(c) == (CHOOSE i \in 1..10 : DigitChars[i] = c) - 1

IsHexDigit(c) == IsDigit(c) \/ \E i \in 1..2 : HexLetters[i] = c
HexVal(c) ==
    IF IsDigit(c) THEN DigitVal(c)
    ELSE 9 + (CHOOSE i \in 1..2 : HexLetters[i] = c)

(* String.prototype.startsWith *)
StartsWith(text, prefix) ==
    /\ Len(text) >= Len(prefix)
    /\ SubSeq(text, 1, Len(prefix)) = prefix

(* text.slice(n) / text.substring(n), n counted from 0 *)
SliceFrom(text, n) == SubSeq(text, n + 1, Len(text))

IndexOf(text, c) ==
    IF \E i \in 1..Len(text) : text[i] = c
    THEN CHOOSE i \in 1..Len(text) : text[i] = c /\ \A j \in 1..(i - 1) : text[j] # c
    ELSE 0

(* String.prototype.split on a one-character separator: every occurrence
   splits, and the empty text gives one empty segment *)
RECURSIVE Split(_, _)
Split(text, sep) ==
    LET i == IndexOf(text, sep) IN
    IF i = 0 THEN <<text>>
    ELSE <<SubSeq(text, 1, i - 1)>> \o Split(SliceFrom(text, i), sep)

(* Array.prototype.join *)
RECURSIVE Join(_, _)
Join(parts, sep) ==
    IF parts = <<>> THEN <<>>
    ELSE IF Len(parts) = 1 THEN parts[1]
    ELSE parts[1] \o <<sep>> \o Join(Tail(parts), sep)

(* The template literal ${n} of an integer *)
RECURSIVE NatToText(_)
NatToText(n) ==
    IF n < 10 THEN <<DigitChars[n + 1]>>
    ELSE NatToText(n \div 10) \o <<DigitChars[(n % 10) + 1]>>

NumberToText(n) == IF n < 0 THEN <<"-">> \o NatToText(0 - n) ELSE NatToText(n)

RECURSIVE DecimalValue(_)
DecimalValue(digits) ==
    IF digits = <<>> THEN 0
    ELSE 10 * DecimalValue(SubSeq(digits, 1, Len(digits) - 1))
         + DigitVal(digits[Len(digits)])

RECURSIVE HexValue(_)
HexValue(digits) ==
    IF digits = <<>> THEN 0
    ELSE 16 * HexValue(SubSeq(digits, 1, Len(digits) - 1))
         + HexVal(digits[Len(digits)])

NaN == [nan |-> TRUE]
Num(n) == [nan |-> FALSE, val |-> n]

(* Number(text) over the characters of the model (digits, '-', letters and
   the delimiters): the empty text is 0, a decimal literal with an optional
   minus sign and a 0x literal are their values, anything else is NaN. *)
ToNumber(text) ==
    IF text = <<>> THEN Num(0)
    ELSE IF \A i \in 1..Len(text) : IsDigit(text[i]) THEN Num(DecimalValue(text))
    ELSE IF /\ Len(text) >= 2 /\ text[1] = "-"
            /\ \A i \in 2..Len(text) : IsDigit(text[i])
         THEN Num(0 - DecimalValue(Tail(text)))
    ELSE IF /\ Len(text) >= 3 /\ text[1] = "0" /\ text[2] = "x"
            /\ \A i \in 3..Len(text) : IsHexDigit(text[i])
         THEN Num(HexValue(SliceFrom(text, 2)))
    ELSE NaN

(* isNaN(v) of a destructured array element: a missing element is
   undefined, and isNaN(undefined) is true *)
ElementIsNaN(nums, k) == k > Len(nums) \/ nums[k].nan

----------------------------------------------------------------------------
(* serializeSprites / deserializeSprites, App.jsx 280-313 *)

ReservedChars == {":", ";", ",", "|"}
VersionPrefix == <<"v", "1", "|">>

(* s.name.replace(/[:;,|]/g, '-') *)
CleanName(name) ==
    [i \in 1..Len(name) |-> IF name[i] \in ReservedChars THEN "-" ELSE name[i]]

SerializeOne(s) ==
    CleanName(s.name) \o <<":">> \o NumberToText(s.x) \o <<",">> \o NumberToText(s.y)
        \o <<",">> \o NumberToText(s.w) \o <<",">> \o NumberToText(s.h)

serializeSprites(spritesToSerialize) ==
    IF Len(spritesToSerialize) = 0 THEN <<>>
    ELSE VersionPrefix \o
         Join([i \in 1..Len(spritesToSerialize) |-> SerializeOne(spritesToSerialize[i])], ";")

Null == [null |-> TRUE]

(* The map callback of lines 300-311 for the record at a 0-based index:
   item.split(':') keeps the first two segments as name and coords, the
   coords are split on ',' and mapped through Number, and the first four
   are x, y, w, h. *)
DeserializeOne(item, index, t) ==
    LET parts == Split(item, ":")
        nums == IF Len(parts) >= 2
                THEN LET fields == Split(parts[2], ",")
                     IN [k \in 1..Len(fields) |-> ToNumber(fields[k])]
                ELSE <<>>
    IN  IF parts[1] = <<>> \/ Len(parts) < 2 THEN Null
        ELSE IF parts[2] = <<>> THEN Null
        ELSE IF \E k \in 1..4 : ElementIsNaN(nums, k) THEN Null
        ELSE [id |-> MsId(t + index), name |-> parts[1],
              x |-> nums[1].val, y |-> nums[2].val,
              w |-> nums[3].val, h |-> nums[4].val]

(* DeserializeContent without the version check of line 294 *)
DeserializeContent_AnyVersion(content, t) ==
    LET dataStr == SliceFrom(content, 3) IN
    IF dataStr = <<>> THEN <<>>
    ELSE LET items == Split(dataStr, ";") IN
         SelectSeq([i \in 1..Len(items) |-> DeserializeOne(items[i], i - 1, t)],
                   LAMBDA r : r # Null)

(* Lines 293-312, on the hash without its leading '#' *)
DeserializeContent(content, t) ==
    IF ~StartsWith(content, VersionPrefix) THEN <<>>
    ELSE LET dataStr == SliceFrom(content, 3) IN
         IF dataStr = <<>> THEN <<>>
         ELSE LET items == Split(dataStr, ";") IN
              SelectSeq([i \in 1..Len(items) |-> DeserializeOne(items[i], i - 1, t)],
                        LAMBDA r : r # Null)

HashV1 == <<"#">> \o VersionPrefix

(* t is Date.now() *)
deserializeSprites(h, t) ==
    IF h = <<>> \/ ~StartsWith(h, <<"#">>) THEN <<>>
    ELSE DeserializeContent(SliceFrom(h, 1), t)

(* window.location.hash after the assignment window.location.hash = text:
   empty for the empty text, else the text behind one '#'. The characters
   of the model are not percent-encoded by the fragment setter. *)
LocationHashSet(text) ==
    IF text = <<>> THEN <<>>
    ELSE IF text[1] = "#" THEN text
    ELSE <<"#">> \o text

(* newTag.replace(/[^a-zA-Z0-9-_]/g, '-') over the characters of the model *)
Letters == {"a", "b", "c", "e", "i", "n", "o", "p", "r", "s", "t", "v", "x"}
TagChars == Range(DigitChars) \cup Letters \cup {"-", "_"}
CleanTag(newTag) ==
    [i \in 1..Len(newTag) |-> IF newTag[i] \in TagChars THEN newTag[i] ELSE "-"]

----------------------------------------------------------------------------
(* Handlers of the App component that the codec specifications use *)

(* The state of a freshly constructed App, lines 59-88; the location hash
   and the clock belong to the browser and are set by each Init. *)
FreshApp ==
    /\ rnd = 0
    /\ mounted = FALSE
    /\ mode = "analyze"
    /\ imageSrc = NoImage
    /\ imageDimensions = ZeroDimensions
    /\ sprites = <<>>
    /\ buildItems = <<>>
    /\ isDrawing = FALSE
    /\ startPos = Origin
    /\ currentRect = NoRect
    /\ loads = <<>>
    /\ draws = <<>>
    /\ explode = Idle

(* Load from URL Hash on Mount, lines 316-328 *)
MountHashEffect ==
    /\ ~mounted
    /\ mounted' = TRUE
    /\ LET loadedSprites == deserializeSprites(hash, now) IN
       sprites' = IF hash # <<>> /\ Len(loadedSprites) > 0 THEN loadedSprites
                  ELSE sprites
    /\ UNCHANGED <<now, rnd, hash, mode, imageSrc, imageDimensions, buildItems,
                   isDrawing, startPos, currentRect, loads, draws, explode>>

(* handleShareUrl, lines 331-336 *)
HandleShareUrl ==
    /\ mounted
    /\ hash' = LocationHashSet(serializeSprites(sprites))
    /\ UNCHANGED <<now, rnd, mounted, mode, imageSrc, imageDimensions, sprites,
                   buildItems, isDrawing, startPos, currentRect, loads, draws, explode>>

(* handleTagChange, lines 265-277 *)
HandleTagChange(id, newTag) ==
    /\ mounted
    /\ LET cleanTag == CleanTag(newTag) IN
       /\ buildItems' = [i \in 1..Len(buildItems) |->
                            IF buildItems[i].id = id
                            THEN [buildItems[i] EXCEPT !.tag = cleanTag, !.name = cleanTag]
                            ELSE buildItems[i]]
       /\ sprites' = [i \in 1..Len(sprites) |->
                         IF sprites[i].id = id
                         THEN [sprites[i] EXCEPT !.name = cleanTag]
                         ELSE sprites[i]]
    /\ UNCHANGED <<now, rnd, hash, mounted, mode, imageSrc, imageDimensions,
                   isDrawing, startPos, currentRect, loads, draws, explode>>

(* The page is opened again at the same URL: a new App with the same hash *)
PageLoad ==
    /\ mounted
    /\ rnd' = 0
    /\ mounted' = FALSE
    /\ mode' = "analyze"
    /\ imageSrc' = NoImage
    /\ imageDimensions' = ZeroDimensions
    /\ sprites' = <<>>
    /\ buildItems' = <<>>
    /\ isDrawing' = FALSE
    /\ startPos' = Origin
    /\ currentRect' = NoRect
    /\ loads' = <<>>
    /\ draws' = <<>>
    /\ explode' = Idle
    /\ UNCHANGED <<now, hash>>

----------------------------------------------------------------------------
(* The IndexedDB stores, the timers and the calls in flight of a page opened
   in a browser profile that holds no saved session *)
StoreFresh ==
    /\ canvas = Idle
    /\ metaStore = Null
    /\ imageStore = Null
    /\ timers = <<>>
    /\ saves = <<>>
    /\ reset = "none"
    /\ loadClosures = <<>>
    /\ drawClosures = <<>>
    /\ isSaving = FALSE
    /\ lastSaved = Null
    /\ codeMode = "scss"
    /\ clipboard = Null

(* A step of a specification that follows the rectangles only: the stores
   and what is in flight towards them are followed in SpecStore *)
StoreAside ==
    UNCHANGED <<canvas, metaStore, imageStore, timers, saves, reset,
                loadClosures, drawClosures, isSaving, lastSaved, codeMode, clipboard>>

----------------------------------------------------------------------------
(* SpecDecode: the mount effect decoding every bounded location hash *)

MaxRecords == 2      \* most records in a location hash of SpecDecode

RecordPool ==
    { <<"a", ":", "1", ",", "2", ",", "3", ",", "x">>,
      <<"b", ":", "0", ",", "0", ",", "1", "0", ",", "1", "0">>,
      <<":", "1", ",", "2", ",", "3", ",", "4">>,
      <<"a">>,
      <<"a", ":">>,
      <<"a", ":", "1", ",", "2", ",", "3">>,
      <<"b", ":", "1", ",", "2", ",", "3", ",">>,
      <<"a", ":", "1", ",", "2", ",", "3", ",", "4", ":", "x">>,
      <<"b", ":", "-", "5", ",", "0", "x", "a", ",", "1", "2", ",", "7", ",", "9">>,
      <<>> }

HashPrefixes ==
    { <<"#", "v", "1", "|">>, <<"#", "v", "2", "|">>, <<"#", "v", "1">>, <<"#">> }

HashInputs ==
    {<<>>} \cup
    { pre \o Join(rs, ";") : pre \in HashPrefixes, rs \in SeqsUpTo(RecordPool, MaxRecords) }

InitDecode ==
    /\ now = 1
    /\ hash \in HashInputs
    /\ FreshApp
    /\ StoreFresh

NextDecode == MountHashEffect /\ StoreAside

SpecDecode == InitDecode /\ [][NextDecode]_vars

----------------------------------------------------------------------------
(* SpecCodec: renaming and sharing a rectangle list, then opening the link *)

MaxRects == 2        \* longest rectangle list of SpecCodec

ShareNames == { <<"a">>, <<"a", "|", "b">> }
ShareCoords == { <<0, 0, 10, 10>>, <<-5, 12, 120, 7>> }
TagInputs == { <<>>, <<"b">>, <<"a", ":">> }

ShareInputs ==
    UNION {
      { [i \in 1..k |-> [id |-> i, name |-> ns[i], x |-> cs[i][1], y |-> cs[i][2],
                         w |-> cs[i][3], h |-> cs[i][4]]] :
          ns \in [1..k -> ShareNames], cs \in [1..k -> ShareCoords] } : k \in 0..MaxRects }

InitCodec ==
    /\ now = 1 /\ rnd = 0 /\ hash = <<>> /\ mounted = TRUE
    /\ mode = "analyze" /\ imageSrc = NoImage
    /\ imageDimensions = ZeroDimensions
    /\ sprites \in ShareInputs
    /\ buildItems = <<>>
    /\ isDrawing = FALSE /\ startPos = Origin /\ currentRect = NoRect
    /\ loads = <<>> /\ draws = <<>> /\ explode = Idle
    /\ StoreFresh

NextCodec ==
    \/ \E i \in 1..Len(sprites), newTag \in TagInputs :
          HandleTagChange(sprites[i].id, newTag) /\ StoreAside
    \/ HandleShareUrl /\ StoreAside
    \/ PageLoad /\ StoreAside
    \/ MountHashEffect /\ StoreAside

SpecCodec == InitCodec /\ [][NextCodec]_vars

----------------------------------------------------------------------------
(* The session: every handler of the App component that creates, moves or
   removes rectangles, with its asynchronous continuations as steps of
   their own *)

MaxClock == 2        \* last reading of Date.now()
MaxSprites == 2      \* rectangles drawn by hand in one list
MaxLoads == 1        \* image decodes in flight
MaxDraws == 2        \* drawComposite calls scheduled or encoding

RemoveAt(q, i) == SubSeq(q, 1, i - 1) \o SubSeq(q, i + 1, Len(q))

(* Math.random() draws that the operations in flight will still make: one
   for each pasted image not yet an item, one for each slice of a running
   explode not yet resolved.  An operation that draws is started only while
   MaxRandom covers it. *)
RandomPending ==
    Cardinality({k \in 1..Len(loads) : loads[k].kind \in {"pasteBitmap", "pasteItem"}})
    + (IF explode.active
       THEN Cardinality({i \in 1..Len(explode.items) : explode.items[i] = Null})
       ELSE 0)

(* Math.round of v half pixels: halves round up *)
RoundHalf(v) == (v + 1) \div 2

(* Math.round(n / d) for d > 0 *)
RoundDiv(n, d) == (2 * n + d) \div (2 * d)

SpriteName(n) == <<"s", "p", "r", "i", "t", "e", "-">> \o NumberToText(n)
IconName(n) == <<"i", "c", "o", "n", "-">> \o NumberToText(n)

(* Sizes of the images pasted and uploaded *)
ImageSizes == { [w |-> 100, h |-> 50] }

(* Mouse positions on the canvas, in half pixels: where a drag starts, and
   where the pointer moves to *)
MouseDownPoints == { [x |-> 0, y |-> 0] }
MousePoints == { [x |-> 0, y |-> 0], [x |-> 21, y |-> 31] }

(* { rows, cols, padding } as typed into the grid dialog *)
GridConfigs == { [rows |-> 1, cols |-> 2, padding |-> 3] }

(* The location hashes the page is opened with *)
SessionHashes ==
    { HashV1 \o <<"a", ":", "0", ",", "0", ",", "1", "0", ",", "1", "0", ";",
                      "b", ":", "1", "2", ",", "0", ",", "1", "0", ",", "1", "0">> }

(* One millisecond passes *)
Tick ==
    /\ now < MaxClock
    /\ now' = now + 1
    /\ UNCHANGED <<rnd, hash, mounted, mode, imageSrc, imageDimensions, sprites,
                   buildItems, isDrawing, startPos, currentRect, loads, draws, explode>>

(* handleImageUpload up to img.src = url, lines 402-408 and 418 *)
HandleImageUpload(size) ==
    /\ mounted
    /\ Len(loads) < MaxLoads
    /\ mode' = "analyze"
    /\ buildItems' = <<>>
    /\ loads' = Append(loads, [kind |-> "upload", w |-> size.w, h |-> size.h])
    /\ UNCHANGED <<now, rnd, hash, mounted, imageSrc, imageDimensions, sprites,
                   isDrawing, startPos, currentRect, draws, explode>>

(* img.onload of handleImageUpload, lines 409-417 *)
UploadLoaded(k) ==
    /\ loads[k].kind = "upload"
    /\ imageDimensions' = [width |-> loads[k].w, height |-> loads[k].h]
    /\ imageSrc' = [kind |-> "file", width |-> loads[k].w, height |-> loads[k].h]
    /\ loads' = RemoveAt(loads, k)
    /\ UNCHANGED <<now, rnd, hash, mounted, mode, sprites, buildItems,
                   isDrawing, startPos, currentRect, draws, explode>>

(* handlePaste for one image item, lines 341-349 and 392: the callback given
   to createImageBitmap closes over imageSrc, sprites, mode and buildItems
   of the render the listener belongs to *)
HandlePaste(size) ==
    /\ mounted
    /\ Len(loads) < MaxLoads
    /\ rnd + RandomPending < MaxRandom
    /\ loads' = Append(loads, [kind |-> "pasteBitmap", w |-> size.w, h |-> size.h,
                               restore |-> (imageSrc = NoImage /\ Len(sprites) > 0),
                               mode |-> mode,
                               count |-> Len(buildItems) + Len(sprites)])
    /\ UNCHANGED <<now, rnd, hash, mounted, mode, imageSrc, imageDimensions, sprites,
                   buildItems, isDrawing, startPos, currentRect, draws, explode>>

(* The createImageBitmap(blob).then callback, lines 349-373 *)
PasteBitmapReady(k) ==
    /\ loads[k].kind = "pasteBitmap"
    /\ IF loads[k].restore
       THEN /\ mode' = "analyze"
            /\ loads' = [loads EXCEPT ![k] =
                            [kind |-> "pasteRestore", w |-> loads[k].w, h |-> loads[k].h]]
       ELSE /\ mode' = IF loads[k].mode = "analyze" THEN "build" ELSE mode
            /\ loads' = [loads EXCEPT ![k] =
                            [kind |-> "pasteItem", w |-> loads[k].w, h |-> loads[k].h,
                             defaultTag |-> SpriteName(loads[k].count + 1)]]
    /\ UNCHANGED <<now, rnd, hash, mounted, imageSrc, imageDimensions, sprites,
                   buildItems, isDrawing, startPos, currentRect, draws, explode>>

(* img.onload of the background restore, lines 355-360 *)
PasteRestoreLoaded(k) ==
    /\ loads[k].kind = "pasteRestore"
    /\ imageDimensions' = [width |-> loads[k].w, height |-> loads[k].h]
    /\ imageSrc' = [kind |-> "file", width |-> loads[k].w, height |-> loads[k].h]
    /\ loads' = RemoveAt(loads, k)
    /\ UNCHANGED <<now, rnd, hash, mounted, mode, sprites, buildItems,
                   isDrawing, startPos, currentRect, draws, explode>>

(* img.onload of a pasted build item, lines 374-390 *)
PasteItemLoaded(k) ==
    /\ loads[k].kind = "pasteItem"
    /\ rnd < MaxRandom
    /\ Len(draws) < MaxDraws
    /\ rnd' = rnd + 1
    /\ LET newItem == [id |-> RandomId(now, rnd + 1),
                       name |-> loads[k].defaultTag, tag |-> loads[k].defaultTag,
                       w |-> loads[k].w, h |-> loads[k].h, imgElement |-> TRUE,
                       originalSrc |-> "ok"]
           updated == Append(buildItems, newItem)
       IN  /\ buildItems' = updated
           /\ repackSprites(updated)
    /\ loads' = RemoveAt(loads, k)
    /\ UNCHANGED <<now, hash, mounted, mode, imageSrc,
                   isDrawing, startPos, currentRect, explode>>

(* handleMouseDown, lines 431-437 *)
HandleMouseDown(pos) ==
    /\ mounted
    /\ imageSrc # NoImage /\ mode # "build"
    /\ isDrawing' = TRUE
    /\ startPos' = pos
    /\ UNCHANGED <<now, rnd, hash, mounted, mode, imageSrc, imageDimensions, sprites,
                   buildItems, currentRect, loads, draws, explode>>

Abs(v) == IF v < 0 THEN 0 - v ELSE v
Min(a, b) == IF a <= b THEN a ELSE b

(* handleMouseMove, lines 439-448 *)
HandleMouseMove(pos) ==
    /\ isDrawing /\ mode # "build"
    /\ currentRect' = [x |-> Min(startPos.x, pos.x), y |-> Min(startPos.y, pos.y),
                       w |-> Abs(pos.x - startPos.x), h |-> Abs(pos.y - startPos.y)]
    /\ UNCHANGED <<now, rnd, hash, mounted, mode, imageSrc, imageDimensions, sprites,
                   buildItems, isDrawing, startPos, loads, draws, explode>>

(* handleMouseUp, lines 450-466; currentRect.w > 5 pixels is > 10 half pixels *)
HandleMouseUp ==
    /\ isDrawing /\ currentRect # NoRect /\ mode # "build"
    /\ IF currentRect.w > 10 /\ currentRect.h > 10
       THEN /\ Len(sprites) < MaxSprites
            /\ sprites' = Append(sprites,
                   [id |-> MsId(now), name |-> SpriteName(Len(sprites) + 1),
                    x |-> RoundHalf(currentRect.x), y |-> RoundHalf(currentRect.y),
                    w |-> RoundHalf(currentRect.w), h |-> RoundHalf(currentRect.h)])
       ELSE UNCHANGED sprites
    /\ isDrawing' = FALSE
    /\ currentRect' = NoRect
    /\ UNCHANGED <<now, rnd, hash, mounted, mode, imageSrc, imageDimensions,
                   buildItems, startPos, loads, draws, explode>>

(* The sprite pushed for row r, column c (from 0) as the count-th, lines
   471-486; itemWidth and itemHeight are the fractions nw / cols and
   nh / rows *)
GridSprite(cfg, r, c, count, t) ==
    LET nw == imageDimensions.width - cfg.padding * (cfg.cols + 1)
        nh == imageDimensions.height - cfg.padding * (cfg.rows + 1)
    IN  [id |-> MsId(t + count),
         name |-> IconName(count),
         x |-> RoundDiv(cfg.padding * cfg.cols + c * (nw + cfg.padding * cfg.cols), cfg.cols),
         y |-> RoundDiv(cfg.padding * cfg.rows + r * (nh + cfg.padding * cfg.rows), cfg.rows),
         w |-> RoundDiv(nw, cfg.cols),
         h |-> RoundDiv(nh, cfg.rows)]

(* generateGrid, lines 468-492, for rows >= 1 and cols >= 1; the dialog is
   offered in analyze mode once an image is shown (line 702) *)
GenerateGrid(cfg) ==
    /\ mounted
    /\ mode = "analyze" /\ imageSrc # NoImage
    /\ imageDimensions.width # 0
    /\ sprites' = [n \in 1..(cfg.rows * cfg.cols) |->
                      GridSprite(cfg, (n - 1) \div cfg.cols, (n - 1) % cfg.cols, n, now)]
    /\ UNCHANGED <<now, rnd, hash, mounted, mode, imageSrc, imageDimensions,
                   buildItems, isDrawing, startPos, currentRect, loads, draws, explode>>

(* The delete button of the sprite at position i, lines 766-775: setSprites
   with the filtered list, then in build mode setBuildItems and
   repackSprites, which sets the sprites again unless the list is empty *)
DeleteSprite(i) ==
    /\ mounted
    /\ i \in 1..Len(sprites)
    /\ LET newSprites == SelectSeq(sprites, LAMBDA sp : sp.id # sprites[i].id)
           newItems == SelectSeq(buildItems, LAMBDA it : it.id # sprites[i].id)
       IN  IF mode = "build"
           THEN /\ Len(newItems) = 0 \/ Len(draws) < MaxDraws
                /\ buildItems' = newItems
                /\ IF Len(newItems) = 0
                   THEN sprites' = newSprites /\ UNCHANGED <<imageDimensions, draws>>
                   ELSE repackSprites(newItems)
           ELSE /\ sprites' = newSprites
                /\ UNCHANGED <<buildItems, imageDimensions, draws>>
    /\ UNCHANGED <<now, rnd, hash, mounted, mode, imageSrc,
                   isDrawing, startPos, currentRect, loads, explode>>

(* The timeout of repackSprites fires: drawComposite draws every item (each
   has its imgElement) and asks the canvas for its blob, lines 215-261 *)
DrawComposite(k) ==
    /\ draws[k].stage = "scheduled"
    /\ \A j \in 1..(k - 1) : draws[j].stage # "scheduled"
    /\ \A j \in 1..Len(draws[k].items) : draws[k].items[j].imgElement
    /\ draws' = [draws EXCEPT ![k].stage = "encoding"]
    /\ UNCHANGED <<now, rnd, hash, mounted, mode, imageSrc, imageDimensions, sprites,
                   buildItems, isDrawing, startPos, currentRect, loads, explode>>

(* The canvas.toBlob callback of finish, lines 228-238 *)
DrawFinished(k) ==
    /\ draws[k].stage = "encoding"
    /\ imageSrc' = [kind |-> "composite", width |-> draws[k].width,
                    height |-> draws[k].height]
    /\ draws' = RemoveAt(draws, k)
    /\ UNCHANGED <<now, rnd, hash, mounted, mode, imageDimensions, sprites,
                   buildItems, isDrawing, startPos, currentRect, loads, explode>>

(* explodeSprites up to the wait for the sheet image, lines 588-600; one
   call is followed at a time *)
ExplodeStart ==
    /\ mounted
    /\ mode = "analyze"
    /\ imageSrc # NoImage /\ Len(sprites) > 0
    /\ ~explode.active
    /\ rnd + RandomPending + Len(sprites) <= MaxRandom
    /\ explode' = [active |-> TRUE, stage |-> "loading", rects |-> sprites,
                   items |-> [i \in 1..Len(sprites) |-> Null]]
    /\ UNCHANGED <<now, rnd, hash, mounted, mode, imageSrc, imageDimensions, sprites,
                   buildItems, isDrawing, startPos, currentRect, loads, draws>>

(* The sheet image has loaded: every slice is drawn and its toBlob started,
   lines 602-611 *)
ExplodeImageLoaded ==
    /\ explode.active /\ explode.stage = "loading"
    /\ explode' = [explode EXCEPT !.stage = "slicing"]
    /\ UNCHANGED <<now, rnd, hash, mounted, mode, imageSrc, imageDimensions, sprites,
                   buildItems, isDrawing, startPos, currentRect, loads, draws>>

(* The slice of rectangle i has been encoded and decoded again: its promise
   resolves, lines 611-626.  A canvas of no area gives toBlob a null blob,
   URL.createObjectURL(null) throws and the promise stays pending. *)
ExplodeSliceLoaded(i) ==
    /\ explode.active /\ explode.stage = "slicing"
    /\ i \in 1..Len(explode.rects)
    /\ explode.items[i] = Null
    /\ explode.rects[i].w > 0 /\ explode.rects[i].h > 0
    /\ rnd < MaxRandom
    /\ rnd' = rnd + 1
    /\ explode' = [explode EXCEPT !.items[i] =
                      [id |-> RandomId(now, rnd + 1),
                       name |-> explode.rects[i].name, tag |-> explode.rects[i].name,
                       w |-> explode.rects[i].w, h |-> explode.rects[i].h,
                       imgElement |-> TRUE, originalSrc |-> "ok"]]
    /\ UNCHANGED <<now, hash, mounted, mode, imageSrc, imageDimensions, sprites,
                   buildItems, isDrawing, startPos, currentRect, loads, draws>>

(* Promise.all has gathered every slice, lines 630-634 *)
ExplodeGathered ==
    /\ explode.active /\ explode.stage = "slicing"
    /\ \A i \in 1..Len(explode.items) : explode.items[i] # Null
    /\ Len(draws) < MaxDraws
    /\ buildItems' = explode.items
    /\ mode' = "build"
    /\ repackSprites(explode.items)
    /\ explode' = Idle
    /\ UNCHANGED <<now, rnd, hash, mounted, imageSrc,
                   isDrawing, startPos, currentRect, loads>>

Init ==
    /\ now = 1
    /\ hash \in SessionHashes
    /\ FreshApp
    /\ StoreFresh

(* Spec follows one drawComposite call at a time *)
MaxSessionDraws == 1     \* drawComposite calls scheduled or encoding in Spec

SessionDraws == Len(draws') <= MaxSessionDraws

Next ==
    \/ Tick /\ StoreAside
    \/ MountHashEffect /\ StoreAside
    \/ \E size \in ImageSizes : HandleImageUpload(size) /\ StoreAside
    \/ \E size \in ImageSizes : HandlePaste(size) /\ StoreAside
    \/ \E k \in 1..Len(loads) : UploadLoaded(k) /\ StoreAside
    \/ \E k \in 1..Len(loads) : PasteBitmapReady(k) /\ StoreAside
    \/ \E k \in 1..Len(loads) : PasteRestoreLoaded(k) /\ StoreAside
    \/ \E k \in 1..Len(loads) : PasteItemLoaded(k) /\ SessionDraws /\ StoreAside
    \/ \E pos \in MouseDownPoints : HandleMouseDown(pos) /\ StoreAside
    \/ \E pos \in MousePoints : HandleMouseMove(pos) /\ StoreAside
    \/ HandleMouseUp /\ StoreAside
    \/ \E cfg \in GridConfigs : GenerateGrid(cfg) /\ StoreAside
    \/ \E i \in 1..Len(sprites) : DeleteSprite(i) /\ SessionDraws /\ StoreAside
    \/ \E k \in 1..Len(draws) : DrawComposite(k) /\ StoreAside
    \/ \E k \in 1..Len(draws) : DrawFinished(k) /\ StoreAside
    \/ ExplodeStart /\ StoreAside
    \/ ExplodeImageLoaded /\ StoreAside
    \/ \E i \in 1..MaxSprites : ExplodeSliceLoaded(i) /\ StoreAside
    \/ ExplodeGathered /\ SessionDraws /\ StoreAside

Spec == Init /\ [][Next]_vars

----------------------------------------------------------------------------
(* SpecPack: repackSprites applied to every bounded list of pasted items *)

PackWidths == {100, 600, 5000}
PackHeights == {50, 600}
PackTags == {<<>>, <<"a">>}

PackItemAt(i, w, h, tag) ==
    [id |-> i, name |-> <<"n">>, tag |-> tag, w |-> w, h |-> h, imgElement |-> TRUE,
     originalSrc |-> "ok"]

PackInputs ==
    UNION {
      { [i \in 1..k |-> PackItemAt(i, ws[i], hs[i], ts[i])] :
          ws \in [1..k -> PackWidths], hs \in [1..k -> PackHeights],
          ts \in [1..k -> PackTags] } : k \in 0..MaxItems }

InitPack ==
    /\ now = 1 /\ rnd = 0 /\ hash = <<>> /\ mounted = TRUE
    /\ mode = "build" /\ imageSrc = NoImage
    /\ imageDimensions = ZeroDimensions
    /\ sprites = <<>>
    /\ buildItems \in PackInputs
    /\ isDrawing = FALSE /\ startPos = Origin /\ currentRect = NoRect
    /\ loads = <<>> /\ draws = <<>> /\ explode = Idle
    /\ StoreFresh

RepackBuildItems ==
    /\ draws = <<>>
    /\ repackSprites(buildItems)
    /\ UNCHANGED <<now, rnd, hash, mounted, mode, imageSrc, buildItems,
                   isDrawing, startPos, currentRect, loads, explode>>

NextPack == RepackBuildItems /\ StoreAside

SpecPack == InitPack /\ [][NextPack]_vars

----------------------------------------------------------------------------
(* Properties of the packer, checked under SpecPack *)

(* repackSprites has run on a non-empty list *)
Packed == draws # <<>>

SetMax(S) == CHOOSE m \in S : \A n \in S : n <= m

RECURSIVE SumWidths(_)
SumWidths(items) ==
    IF items = <<>> THEN 0 ELSE Head(items).w + SumWidths(Tail(items))

Disjoint(a, b) ==
    \/ a.x + a.w <= b.x
    \/ b.x + b.w <= a.x
    \/ a.y + a.h <= b.y
    \/ b.y + b.h <= a.y

(* C1: the rectangles produced by repackSprites from items with w > 0 and
   h > 0 are pairwise non-overlapping. *)
C1_NoOverlap ==
    Packed =>
        \A i, j \in 1..Len(sprites) : i < j => Disjoint(sprites[i], sprites[j])

(* three rectangles, two sharing a row and one wrapped below them *)
C1_Witness ==
    /\ Packed
    /\ Len(sprites) = 3
    /\ sprites[1].y = sprites[2].y
    /\ sprites[3].y > sprites[2].y

(* C2: the canvas size equals the tight bounding box of the placed
   rectangles: width = max (x + w), height = max (y + h). *)
C2_TightBoundingBox ==
    Packed =>
        /\ imageDimensions.width =
               SetMax({sprites[i].x + sprites[i].w : i \in 1..Len(sprites)})
        /\ imageDimensions.height =
               SetMax({sprites[i].y + sprites[i].h : i \in 1..Len(sprites)})

(* C3: one rectangle per input item, in input order, carrying the item's
   id, w and h, and named by the item's tag or else its name. *)
C3_OrderAndIdentity ==
    Packed =>
        /\ Len(sprites) = Len(buildItems)
        /\ \A i \in 1..Len(buildItems) :
              /\ sprites[i].id = buildItems[i].id
              /\ sprites[i].w = buildItems[i].w
              /\ sprites[i].h = buildItems[i].h
              /\ sprites[i].name =
                    (IF buildItems[i].tag # <<>> THEN buildItems[i].tag
                     ELSE buildItems[i].name)

(* several items, tagged and untagged, of different sizes *)
C3_Witness ==
    /\ Packed
    /\ Len(buildItems) = 3
    /\ buildItems[1].tag = <<>>
    /\ buildItems[2].tag # <<>>
    /\ buildItems[1].w # buildItems[3].w

RowWidthNeeded(items) == SumWidths(items) + padding * (Len(items) - 1)

(* C4: items whose widths plus the padding between neighbours fit within
   the target width are placed in one row at y = 0, x_i the sum of the
   (w_j + 2) before it, on a canvas x_last + w_last wide and max(h) high;
   three 100x50 items give a 304x50 canvas. *)
C4_SingleRow ==
    (Packed /\ ~ExceedsMaxWidth(RowWidthNeeded(buildItems), TotalArea(buildItems))) =>
        LET n == Len(sprites) IN
        /\ \A i \in 1..n :
              /\ sprites[i].y = 0
              /\ sprites[i].x = SumWidths(SubSeq(buildItems, 1, i - 1)) + padding * (i - 1)
        /\ imageDimensions.width = sprites[n].x + sprites[n].w
        /\ imageDimensions.height = SetMax({sprites[i].h : i \in 1..n})

RowHeightAt(y) ==
    SetMax({sprites[i].h : i \in {k \in 1..Len(sprites) : sprites[k].y = y}})

(* C6: an item starts a new row (x = 0, y advanced by the row height plus
   2) exactly when the cursor x > 0 and x + w exceeds the target width; the
   item met at x = 0 is never wrapped, however wide. *)
C6_WrapRule ==
    Packed =>
        /\ sprites[1].x = 0 /\ sprites[1].y = 0
        /\ \A i \in 2..Len(sprites) :
              LET prev == sprites[i - 1]
                  cur  == sprites[i]
                  x    == prev.x + prev.w + padding
              IN  IF x > 0 /\ ExceedsMaxWidth(x + cur.w, TotalArea(buildItems))
                  THEN cur.x = 0 /\ cur.y = prev.y + RowHeightAt(prev.y) + padding
                  ELSE cur.x = x /\ cur.y = prev.y

(* an item wider than 4096 placed first, unwrapped, on a canvas wider than
   4096, followed by an item that does wrap *)
C6_Witness ==
    /\ Packed
    /\ Len(sprites) >= 2
    /\ sprites[1].w > MaxRowWidth
    /\ sprites[1].x = 0 /\ sprites[1].y = 0
    /\ sprites[2].x = 0 /\ sprites[2].y > 0
    /\ imageDimensions.width > MaxRowWidth

----------------------------------------------------------------------------
(* Properties of the codec, checked under SpecCodec and SpecDecode *)

Tuples(rs) ==
    [i \in 1..Len(rs) |-> <<rs[i].name, rs[i].x, rs[i].y, rs[i].w, rs[i].h>>]

NoReservedNames(rs) ==
    \A i \in 1..Len(rs) : \A k \in 1..Len(rs[i].name) : rs[i].name[k] \notin ReservedChars

(* C7: when the location hash is the one handleShareUrl writes for the
   current rectangles, and no name holds a reserved character, decoding the
   hash gives the same (name, x, y, w, h) tuples in the same order. *)
C7_RoundTrip ==
    (/\ mounted
     /\ NoReservedNames(sprites)
     /\ hash = LocationHashSet(serializeSprites(sprites)))
    => Tuples(deserializeSprites(hash, now)) = Tuples(sprites)

(* A numeral: a decimal literal with an optional minus sign, or a 0x literal *)
IsNumeral(field) ==
    \/ /\ field # <<>>
       /\ \A i \in 1..Len(field) : IsDigit(field[i])
    \/ /\ Len(field) >= 2 /\ field[1] = "-"
       /\ \A i \in 2..Len(field) : IsDigit(field[i])
    \/ /\ Len(field) >= 3 /\ field[1] = "0" /\ field[2] = "x"
       /\ \A i \in 3..Len(field) : IsHexDigit(field[i])

(* A well-formed record name:x,y,w,h, split on its first ':' : a name, and
   coordinates whose first four fields are numerals *)
WellFormedRecord(rec) ==
    LET i == IndexOf(rec, ":") IN
    /\ i > 1
    /\ LET fields == Split(SliceFrom(rec, i), ",") IN
       /\ Len(fields) >= 4
       /\ \A k \in 1..4 : IsNumeral(fields[k])

RecordTuple(rec) ==
    LET i == IndexOf(rec, ":")
        fields == Split(SliceFrom(rec, i), ",")
    IN  <<SubSeq(rec, 1, i - 1), ToNumber(fields[1]).val, ToNumber(fields[2]).val,
          ToNumber(fields[3]).val, ToNumber(fields[4]).val>>

WellFormedTuples(payload) ==
    LET good == SelectSeq(Split(payload, ";"), WellFormedRecord)
    IN  [i \in 1..Len(good) |-> RecordTuple(good[i])]

(* C8: of a hash with the v1| prefix the mount effect loads exactly the
   well-formed records, in input order, and drops every record that lacks a
   name, lacks coordinates or has a coordinate field that is not a number;
   "v1|a:1,2,3,x;b:0,0,10,10" gives exactly b = (0,0,10,10). *)
C8_SkipsMalformed ==
    (mounted /\ StartsWith(hash, HashV1)) =>
        /\ Tuples(sprites) = WellFormedTuples(SliceFrom(hash, 4))
        /\ hash = HashV1 \o <<"a", ":", "1", ",", "2", ",", "3", ",", "x", ";",
                              "b", ":", "0", ",", "0", ",", "1", "0", ",", "1", "0">>
             => Tuples(sprites) = << <<(<<"b">>), 0, 0, 10, 10>> >>

IsRectangle(r) ==
    /\ DOMAIN r = {"id", "name", "x", "y", "w", "h"}
    /\ r.name # <<>>
    /\ {r.id, r.x, r.y, r.w, r.h} \subseteq Int

(* C9: for every location hash the mount effect completes with a sequence
   of rectangles, and with the empty sequence whenever the hash lacks the
   v1| prefix. *)
C9_NoDataWithoutPrefix ==
    mounted =>
        /\ \A i \in 1..Len(sprites) : IsRectangle(sprites[i])
        /\ ~StartsWith(hash, HashV1) => sprites = <<>>

(* a hash of another version holding a well-formed record has been read *)
C9_Witness ==
    /\ mounted
    /\ hash = <<"#", "v", "2", "|">>
              \o <<"b", ":", "0", ",", "0", ",", "1", "0", ",", "1", "0">>
    /\ sprites = <<>>

----------------------------------------------------------------------------
(* Properties of the session, checked under Spec *)

(* C5: when the last item is removed in build mode and the empty list is
   re-packed, the session is left with no rectangles and dimensions 0x0. *)
C5_EmptyRepack ==
    [][ (/\ mode = "build"
         /\ Len(buildItems) = 1
         /\ \E i \in 1..Len(sprites) : DeleteSprite(i)
         /\ buildItems' = <<>>)
        => (sprites' = <<>> /\ imageDimensions' = ZeroDimensions) ]_vars

(* C10: no two rectangles of the session's list have the same id. *)
C10_UniqueIds ==
    \A i, j \in 1..Len(sprites) : i < j => sprites[i].id # sprites[j].id

----------------------------------------------------------------------------
(* SpecRename: a shared link is opened, its rectangles are renamed, shared
   again and the new link opened *)

RenameHashes ==
    { HashV1 \o <<"a", ":", "0", ",", "0", ",", "1", "0", ",", "1", "0">>,
      HashV1 \o <<"a", ":", "0", ",", "0", ",", "1", "0", ",", "1", "0", ";",
                  "b", ":", "1", "2", ",", "0", ",", "1", "0", ",", "1", "0">> }

InitRename ==
    /\ now = 1
    /\ hash \in RenameHashes
    /\ FreshApp
    /\ StoreFresh

SpecRename == InitRename /\ [][NextCodec]_vars

(* C11: every rectangle of the session has a non-empty name made of the
   characters A-Z, a-z, 0-9, '_' and '-' only, whatever text it was renamed
   to. *)
C11_SanitizedNames ==
    \A i \in 1..Len(sprites) :
        /\ Len(sprites[i].name) > 0
        /\ \A j \in 1..Len(sprites[i].name) : sprites[i].name[j] \in TagChars

(* C12: every rectangle decoded from a location hash has w > 0, h > 0 and
   x, y that are non-negative integers. *)
C12_PositiveSizes ==
    \A i \in 1..Len(sprites) :
        /\ sprites[i].w \in Nat \ {0}
        /\ sprites[i].h \in Nat \ {0}
        /\ sprites[i].x \in Nat
        /\ sprites[i].y \in Nat

----------------------------------------------------------------------------
(* drawComposite followed item by item.  An item is drawn at once when it
   holds its decoded image (imgElement); otherwise, when it has an
   originalSrc, an Image is created and the item is drawn in its onload.
   canvas.drawn lists the items in the order they were drawn, canvas.blob is
   the set of items on the bitmap when finish asked for the blob. *)

MaxDrawItems == 2    \* longest item list handed to drawComposite in SpecDraw

(* The finish test made after each drawn item, lines 244 and 251 *)
FinishDue_FirstItem(itemsLoaded, totalItems) == itemsLoaded = 1

FinishDue(itemsLoaded, totalItems) == itemsLoaded = totalItems

(* One turn of items.forEach, lines 241-256 *)
ForEachBody(st, j, item, totalItems) ==
    IF item.imgElement
    THEN LET loaded == st.itemsLoaded + 1
             drawn == Append(st.drawn, j)
         IN  [st EXCEPT !.itemsLoaded = loaded,
                        !.drawn = drawn,
                        !.stage = IF FinishDue(loaded, totalItems) THEN "encoding" ELSE @,
                        !.blob = IF FinishDue(loaded, totalItems) THEN Range(drawn) ELSE @,
                        !.finished = IF FinishDue(loaded, totalItems) THEN @ + 1 ELSE @]
    ELSE IF item.originalSrc # "none"
    THEN [st EXCEPT !.decoding = @ \cup {j}]
    ELSE st

RECURSIVE ForEachUpTo(_, _, _)
ForEachUpTo(st, items, n) ==
    IF n = 0 THEN st
    ELSE ForEachBody(ForEachUpTo(st, items, n - 1), n, items[n], Len(items))

(* if (totalItems === 0), line 261 *)
FinishForNone_Never(totalItems) == FALSE

FinishForNone(totalItems) == totalItems = 0

(* drawComposite(items, width, height) up to its return, lines 215-261;
   finished counts the calls of finish *)
drawComposite(items, width, height) ==
    LET start == [active |-> TRUE, stage |-> "drawing", items |-> items,
                  width |-> width, height |-> height,
                  itemsLoaded |-> 0, drawn |-> <<>>, decoding |-> {}, blob |-> Null,
                  finished |-> 0]
        after == ForEachUpTo(start, items, Len(items))
    IN  IF FinishForNone(Len(items))
        THEN [after EXCEPT !.stage = "encoding", !.blob = Range(after.drawn),
                           !.finished = @ + 1]
        ELSE after

(* The timeout set by repackSprites fires, line 212 *)
DrawCompositeCall ==
    /\ canvas.active /\ canvas.stage = "scheduled"
    /\ canvas' = drawComposite(canvas.items, canvas.width, canvas.height)
    /\ UNCHANGED <<now, rnd, hash, mounted, mode, imageSrc, imageDimensions, sprites,
                   buildItems, isDrawing, startPos, currentRect, loads, draws, explode,
                   metaStore, imageStore, timers, saves, reset,
                   loadClosures, drawClosures,
                   isSaving, lastSaved, codeMode, clipboard>>

(* img.onload of a re-hydrated item, lines 248-252 *)
ImgOnload(j) ==
    /\ canvas.active /\ j \in canvas.decoding
    /\ canvas.items[j].originalSrc = "ok"
    /\ LET loaded == canvas.itemsLoaded + 1
           drawn == Append(canvas.drawn, j)
           due == FinishDue(loaded, Len(canvas.items))
       IN  canvas' = [canvas EXCEPT !.itemsLoaded = loaded,
                                    !.drawn = drawn,
                                    !.decoding = @ \ {j},
                                    !.stage = IF due THEN "encoding" ELSE @,
                                    !.blob = IF due THEN Range(drawn) ELSE @,
                                    !.finished = IF due THEN @ + 1 ELSE @]
    /\ UNCHANGED <<now, rnd, hash, mounted, mode, imageSrc, imageDimensions, sprites,
                   buildItems, isDrawing, startPos, currentRect, loads, draws, explode,
                   metaStore, imageStore, timers, saves, reset,
                   loadClosures, drawClosures,
                   isSaving, lastSaved, codeMode, clipboard>>

(* The Image of a re-hydrated item fails to decode its originalSrc: no
   onerror is set (lines 247-253), so nothing runs *)
ImgError(j) ==
    /\ canvas.active /\ j \in canvas.decoding
    /\ canvas.items[j].originalSrc = "broken"
    /\ canvas' = [canvas EXCEPT !.decoding = @ \ {j}]
    /\ UNCHANGED <<now, rnd, hash, mounted, mode, imageSrc, imageDimensions, sprites,
                   buildItems, isDrawing, startPos, currentRect, loads, draws, explode,
                   metaStore, imageStore, timers, saves, reset,
                   loadClosures, drawClosures,
                   isSaving, lastSaved, codeMode, clipboard>>

(* The canvas.toBlob callback of finish installs the composite, lines
   228-238; a canvas of no area gives it a null blob, and nothing is done *)
ToBlobCallback ==
    /\ canvas.active /\ canvas.stage = "encoding"
    /\ IF canvas.width > 0 /\ canvas.height > 0
       THEN /\ canvas' = [canvas EXCEPT !.stage = "emitted"]
            /\ imageSrc' = [kind |-> "composite", width |-> canvas.width,
                            height |-> canvas.height]
       ELSE /\ canvas' = [canvas EXCEPT !.stage = "dropped"]
            /\ imageSrc' = imageSrc
    /\ UNCHANGED <<now, rnd, hash, mounted, mode, imageDimensions, sprites,
                   buildItems, isDrawing, startPos, currentRect, loads, draws, explode,
                   metaStore, imageStore, timers, saves, reset,
                   loadClosures, drawClosures,
                   isSaving, lastSaved, codeMode, clipboard>>

(* SpecDraw: one drawComposite call scheduled by repackSprites for every
   bounded list of items, each holding its decoded image, an originalSrc
   that decodes, one that does not, or no pixel source at all *)
DrawWidths == {100, 600}
PixelSources ==
    { [imgElement |-> TRUE, originalSrc |-> "ok"],
      [imgElement |-> FALSE, originalSrc |-> "ok"],
      [imgElement |-> FALSE, originalSrc |-> "broken"],
      [imgElement |-> FALSE, originalSrc |-> "none"] }

DrawItemAt(i, w, px) ==
    [id |-> MsId(i), name |-> SpriteName(i), tag |-> SpriteName(i), w |-> w, h |-> 50,
     imgElement |-> px.imgElement, originalSrc |-> px.originalSrc]

DrawInputs ==
    UNION { { [i \in 1..k |-> DrawItemAt(i, ws[i], ps[i])] :
                ws \in [1..k -> DrawWidths], ps \in [1..k -> PixelSources] } :
            k \in 1..MaxDrawItems }

InitDraw ==
    /\ now = 1 /\ rnd = 0 /\ hash = <<>> /\ mounted = TRUE
    /\ mode = "build" /\ imageSrc = NoImage
    /\ buildItems \in DrawInputs
    /\ LET c == PackCursor(buildItems) IN
       /\ imageDimensions = [width |-> FinalWidth(c), height |-> FinalHeight(c)]
       /\ sprites = NewSprites(c.positionedItems)
       /\ canvas = [active |-> TRUE, stage |-> "scheduled", items |-> c.positionedItems,
                    width |-> FinalWidth(c), height |-> FinalHeight(c),
                    itemsLoaded |-> 0, drawn |-> <<>>, decoding |-> {}, blob |-> Null,
                    finished |-> 0]
    /\ isDrawing = FALSE /\ startPos = Origin /\ currentRect = NoRect
    /\ loads = <<>> /\ draws = <<>> /\ explode = Idle
    /\ metaStore = Null /\ imageStore = Null /\ timers = <<>> /\ saves = <<>>
    /\ reset = "none" /\ loadClosures = <<>> /\ drawClosures = <<>>
    /\ isSaving = FALSE /\ lastSaved = Null /\ codeMode = "scss" /\ clipboard = Null

NextDraw ==
    \/ DrawCompositeCall
    \/ \E j \in 1..MaxDrawItems : ImgOnload(j)
    \/ \E j \in 1..MaxDrawItems : ImgError(j)
    \/ ToBlobCallback

SpecDraw == InitDraw /\ [][NextDraw]_vars

(* C13: the blob of a composite is asked for, and installed, only when every
   positioned item is on the bitmap, in whatever order the items' decodes
   ended. *)
C13_DrawIsJoin ==
    (canvas.active /\ canvas.stage \in {"encoding", "emitted"})
        => canvas.blob = 1..Len(canvas.items)

C13_Witness ==
    /\ canvas.active /\ canvas.stage = "emitted"
    /\ canvas.drawn = <<2, 1>>
    /\ \A j \in 1..2 : ~canvas.items[j].imgElement
    /\ imageSrc # NoImage

(* What drawComposite has come to when nothing of it is left to run *)
DrawSettled ==
    /\ canvas.active
    /\ canvas.stage \in {"drawing", "emitted", "failed"}
    /\ canvas.decoding = {}

(* C14: a drawComposite call that has nothing left to run has either
   installed its composite or reported that it could not complete. *)
C14_FailureSurfaced ==
    DrawSettled => canvas.stage \in {"emitted", "failed"}

----------------------------------------------------------------------------
(* The persisted session: triggerSave, the debounced save effect, loadSession
   and clearAll over the two IndexedDB stores.  A blob is what the blob URL
   held by imageSrc points at. *)

MaxSaves == 2        \* fetches, triggerSave and loadSession calls in flight

(* The state a handler or an effect of the current render closes over *)
Closure ==
    [sprites |-> sprites, buildItems |-> buildItems, mode |-> mode,
     imageSrc |-> imageSrc, imageDimensions |-> imageDimensions]

(* The same, of the render that follows the step being taken *)
ClosureAfter ==
    [sprites |-> sprites', buildItems |-> buildItems', mode |-> mode',
     imageSrc |-> imageSrc', imageDimensions |-> imageDimensions']

(* currentBuildItems.map(i => ({ ...i, imgElement: null })), line 124 *)
StripHandles(items) ==
    [i \in 1..Len(items) |-> [items[i] EXCEPT !.imgElement = FALSE]]

(* The record triggerSave puts under 'meta', lines 122-128 *)
Metadata(currentSprites, currentBuildItems, currentDim, currentMode, t) ==
    [sprites |-> currentSprites,
     buildItems |-> StripHandles(currentBuildItems),
     dimensions |-> currentDim,
     mode |-> currentMode,
     timestamp |-> t]

(* triggerSave(...) up to its first await, lines 118-128: the call in flight *)
triggerSave(currentSprites, currentBuildItems, currentDim, currentMode, currentBlob) ==
    [stage |-> "meta",
     args |-> [sprites |-> currentSprites, buildItems |-> currentBuildItems,
               dimensions |-> currentDim, mode |-> currentMode, blob |-> currentBlob],
     metadata |-> Metadata(currentSprites, currentBuildItems, currentDim,
                           currentMode, now)]

(* The debounced save effect run after a render, lines 144-158: the cleanup
   of the previous run clears its timeout, then a timeout is set when a
   raster is installed *)
RescheduledTimers_NoCancel(pending, src, closure) ==
    IF src = NoImage THEN pending ELSE Append(pending, closure)

RescheduledTimers(pending, src, closure) ==
    IF src = NoImage THEN <<>> ELSE <<closure>>

(* The effect after a step: it runs again when the step gave one of its
   dependencies a new value or a new array or object *)
DebouncedSaveEffect(rerun) ==
    timers' = IF rerun THEN RescheduledTimers(timers, imageSrc', ClosureAfter)
              ELSE timers

(* The timeout of the effect fires and fetches the blob of its imageSrc,
   lines 149-155 *)
SaveTimeout ==
    /\ timers # <<>>
    /\ Len(saves) < MaxSaves
    /\ saves' = Append(saves, [stage |-> "fetch", closure |-> Head(timers)])
    /\ timers' = Tail(timers)
    /\ UNCHANGED <<now, rnd, hash, mounted, mode, imageSrc, imageDimensions, sprites,
                   buildItems, isDrawing, startPos, currentRect, loads, draws, explode,
                   canvas, metaStore, imageStore, reset, loadClosures, drawClosures,
                   isSaving, lastSaved, codeMode, clipboard>>

(* fetch(imageSrc).then(r => r.blob()).then(...), lines 152-154 *)
FetchedBlob(k) ==
    /\ k \in 1..Len(saves) /\ saves[k].stage = "fetch"
    /\ LET c == saves[k].closure IN
       saves' = [saves EXCEPT ![k] =
                    triggerSave(c.sprites, c.buildItems, c.imageDimensions, c.mode,
                                c.imageSrc)]
    /\ isSaving' = TRUE
    /\ UNCHANGED <<now, rnd, hash, mounted, mode, imageSrc, imageDimensions, sprites,
                   buildItems, isDrawing, startPos, currentRect, loads, draws, explode,
                   canvas, metaStore, imageStore, timers, reset,
                   loadClosures, drawClosures, lastSaved, codeMode, clipboard>>

(* new Date(), lines 107 and 135 *)
NewDate == [time |-> now]

(* The end of a triggerSave call whose puts were committed, lines 135-136 *)
SaveSucceeded ==
    /\ lastSaved' = NewDate
    /\ isSaving' = FALSE

(* db.put('session', 'meta', ...) commits, lines 26-35 and 122-128; without
   a blob the call ends here, lines 131-136 *)
PutMeta(k) ==
    /\ k \in 1..Len(saves) /\ saves[k].stage = "meta"
    /\ metaStore' = saves[k].metadata
    /\ saves' = IF saves[k].args.blob # Null
                THEN [saves EXCEPT ![k].stage = "blob"]
                ELSE RemoveAt(saves, k)
    /\ IF saves[k].args.blob # Null
       THEN UNCHANGED <<isSaving, lastSaved>>
       ELSE SaveSucceeded
    /\ UNCHANGED <<now, rnd, hash, mounted, mode, imageSrc, imageDimensions, sprites,
                   buildItems, isDrawing, startPos, currentRect, loads, draws, explode,
                   canvas, imageStore, timers, reset, loadClosures, drawClosures,
                   codeMode, clipboard>>

(* db.put('images', 'composite', currentBlob) commits, lines 131-133 *)
PutBlob(k) ==
    /\ k \in 1..Len(saves) /\ saves[k].stage = "blob"
    /\ imageStore' = saves[k].args.blob
    /\ saves' = RemoveAt(saves, k)
    /\ SaveSucceeded
    /\ UNCHANGED <<now, rnd, hash, mounted, mode, imageSrc, imageDimensions, sprites,
                   buildItems, isDrawing, startPos, currentRect, loads, draws, explode,
                   canvas, metaStore, timers, reset, loadClosures, drawClosures,
                   codeMode, clipboard>>

(* The catch of triggerSave, lines 137-140: the error is logged and the
   saving flag lowered *)
SaveFailed_AsSuccess ==
    /\ lastSaved' = NewDate
    /\ isSaving' = FALSE

SaveFailed ==
    /\ isSaving' = FALSE
    /\ lastSaved' = lastSaved

(* db.put('session', 'meta', ...) rejects, lines 26-35 (the database does
   not open, or the request fails), and triggerSave catches it *)
PutMetaRejected(k) ==
    /\ k \in 1..Len(saves) /\ saves[k].stage = "meta"
    /\ saves' = RemoveAt(saves, k)
    /\ SaveFailed
    /\ UNCHANGED <<now, rnd, hash, mounted, mode, imageSrc, imageDimensions, sprites,
                   buildItems, isDrawing, startPos, currentRect, loads, draws, explode,
                   canvas, metaStore, imageStore, timers, reset,
                   loadClosures, drawClosures, codeMode, clipboard>>

(* db.put('images', 'composite', currentBlob) rejects after the metadata was
   committed, and triggerSave catches it *)
PutBlobRejected(k) ==
    /\ k \in 1..Len(saves) /\ saves[k].stage = "blob"
    /\ saves' = RemoveAt(saves, k)
    /\ SaveFailed
    /\ UNCHANGED <<now, rnd, hash, mounted, mode, imageSrc, imageDimensions, sprites,
                   buildItems, isDrawing, startPos, currentRect, loads, draws, explode,
                   canvas, metaStore, imageStore, timers, reset,
                   loadClosures, drawClosures, codeMode, clipboard>>

(* What loadSession finds in the stores, lines 93-96: both, or nothing *)
Absent == [absent |-> TRUE]
LoadResult_MetadataAlone ==
    IF metaStore # Null
    THEN [metadata |-> metaStore, blob |-> imageStore]
    ELSE Absent

LoadResult ==
    IF metaStore # Null /\ imageStore # Null
    THEN [metadata |-> metaStore, blob |-> imageStore]
    ELSE Absent

(* The transaction of db.clear over both stores, lines 46-54 *)
DbClear_SessionOnly == [meta |-> Null, image |-> imageStore]

DbClear == [meta |-> Null, image |-> Null]

(* An operation started by the user after clearAll: a clear still in flight
   is "overtaken", a settled one is no longer the last thing done *)
UserOperation ==
    reset' = CASE reset = "settled" -> "none"
               [] reset = "clearing" -> "overtaken"
               [] OTHER -> reset

(* clearAll up to await db.clear(), lines 637-643, and the effect after it.
   reset is "clearing" until the transaction completes and "settled" after,
   while no other operation has been started since. *)
ClearAll ==
    /\ mounted
    /\ reset \notin {"clearing", "overtaken"}
    /\ buildItems' = <<>>
    /\ sprites' = <<>>
    /\ imageSrc' = NoImage
    /\ mode' = "analyze"
    /\ imageDimensions' = ZeroDimensions
    /\ reset' = "clearing"
    /\ DebouncedSaveEffect(TRUE)
    /\ UNCHANGED <<now, rnd, hash, mounted, isDrawing, startPos, currentRect,
                   loads, draws, explode, canvas, metaStore, imageStore, saves,
                   loadClosures, drawClosures,
                   isSaving, lastSaved, codeMode, clipboard>>

(* The transaction of db.clear completes, lines 48-53 and 644-645 *)
ClearCommitted ==
    /\ reset \in {"clearing", "overtaken"}
    /\ metaStore' = DbClear.meta
    /\ imageStore' = DbClear.image
    /\ reset' = IF reset = "clearing" THEN "settled" ELSE "none"
    /\ lastSaved' = Null
    /\ UNCHANGED <<now, rnd, hash, mounted, mode, imageSrc, imageDimensions, sprites,
                   buildItems, isDrawing, startPos, currentRect, loads, draws, explode,
                   canvas, timers, saves, loadClosures, drawClosures,
                   isSaving, codeMode, clipboard>>

(* The mount effects: the hash effect, and loadSession started, 91-115 *)
Mount ==
    /\ MountHashEffect
    /\ saves' = Append(saves, [stage |-> "load"])
    /\ DebouncedSaveEffect(TRUE)
    /\ UNCHANGED <<canvas, metaStore, imageStore, reset, loadClosures, drawClosures,
                   isSaving, lastSaved, codeMode, clipboard>>

(* loadSession after its two db.get calls, lines 93-110, and the effect
   after the render it causes *)
LoadSession(k) ==
    /\ k \in 1..Len(saves) /\ saves[k].stage = "load"
    /\ IF LoadResult = Absent
       THEN /\ UNCHANGED <<mode, sprites, buildItems, imageDimensions, imageSrc,
                           lastSaved>>
            /\ DebouncedSaveEffect(FALSE)
       ELSE /\ mode' = LoadResult.metadata.mode
            /\ sprites' = LoadResult.metadata.sprites
            /\ buildItems' = LoadResult.metadata.buildItems
            /\ imageDimensions' = LoadResult.metadata.dimensions
            /\ imageSrc' = LoadResult.blob
            /\ lastSaved' = NewDate
            /\ DebouncedSaveEffect(TRUE)
    /\ saves' = RemoveAt(saves, k)
    /\ UNCHANGED <<now, rnd, hash, mounted, isDrawing, startPos, currentRect,
                   loads, draws, explode, canvas, metaStore, imageStore, reset,
                   loadClosures, drawClosures, isSaving, codeMode, clipboard>>

(* One of the two db.get calls of loadSession rejects, lines 37-45 (the
   database does not open, or the request fails): the catch of lines
   111-113 logs the error *)
LoadSessionRejected(k) ==
    /\ k \in 1..Len(saves) /\ saves[k].stage = "load"
    /\ saves' = RemoveAt(saves, k)
    /\ DebouncedSaveEffect(FALSE)
    /\ UNCHANGED <<now, rnd, hash, mounted, mode, imageSrc, imageDimensions, sprites,
                   buildItems, isDrawing, startPos, currentRect, loads, draws, explode,
                   canvas, metaStore, imageStore, reset, loadClosures, drawClosures,
                   isSaving, lastSaved, codeMode, clipboard>>

(* The page is reloaded once no database call is in flight: a new App, its
   timers and callbacks gone, over the same stores *)
Reload ==
    /\ saves = <<>>
    /\ PageLoad
    /\ canvas' = Idle
    /\ timers' = <<>>
    /\ saves' = <<>>
    /\ reset' = "none"
    /\ loadClosures' = <<>>
    /\ drawClosures' = <<>>
    /\ isSaving' = FALSE
    /\ lastSaved' = Null
    /\ codeMode' = "scss"
    /\ UNCHANGED <<metaStore, imageStore, clipboard>>

----------------------------------------------------------------------------
(* SpecStore: pasting, renaming, deleting and resetting, each handler joined
   with the closures it hands on, the save it starts and the debounced save
   effect of the render it causes *)

StoreTags == { <<"b">> }
MaxPastes == 1       \* images pasted in one behaviour of SpecStore

StoreHandlePaste(size) ==
    /\ rnd + RandomPending < MaxPastes
    /\ HandlePaste(size)
    /\ loadClosures' = Append(loadClosures, Closure)
    /\ UserOperation
    /\ DebouncedSaveEffect(FALSE)
    /\ UNCHANGED <<canvas, metaStore, imageStore, saves, drawClosures,
                   isSaving, lastSaved, codeMode, clipboard>>

StorePasteBitmapReady(k) ==
    /\ PasteBitmapReady(k)
    /\ DebouncedSaveEffect(mode' # mode)
    /\ UNCHANGED <<canvas, metaStore, imageStore, saves, reset,
                   loadClosures, drawClosures,
                   isSaving, lastSaved, codeMode, clipboard>>

(* lines 355-360 with the save of line 359 *)
StorePasteRestoreLoaded(k) ==
    /\ PasteRestoreLoaded(k)
    /\ Len(saves) < MaxSaves
    /\ saves' = Append(saves, triggerSave(loadClosures[k].sprites, <<>>,
                                          imageDimensions', "analyze", imageSrc'))
    /\ loadClosures' = RemoveAt(loadClosures, k)
    /\ DebouncedSaveEffect(TRUE)
    /\ isSaving' = TRUE
    /\ UNCHANGED <<canvas, metaStore, imageStore, reset, drawClosures,
                   lastSaved, codeMode, clipboard>>

(* lines 374-390: repackSprites, and through it drawComposite, are those of
   the render the paste listener belongs to *)
StorePasteItemLoaded(k) ==
    /\ PasteItemLoaded(k)
    /\ drawClosures' = Append(drawClosures, loadClosures[k])
    /\ loadClosures' = RemoveAt(loadClosures, k)
    /\ DebouncedSaveEffect(TRUE)
    /\ UNCHANGED <<canvas, metaStore, imageStore, saves, reset,
                   isSaving, lastSaved, codeMode, clipboard>>

StoreDeleteSprite(i) ==
    /\ DeleteSprite(i)
    /\ drawClosures' = IF Len(draws') > Len(draws)
                       THEN Append(drawClosures, Closure)
                       ELSE drawClosures
    /\ UserOperation
    /\ DebouncedSaveEffect(TRUE)
    /\ UNCHANGED <<canvas, metaStore, imageStore, saves, loadClosures,
                   isSaving, lastSaved, codeMode, clipboard>>

StoreHandleTagChange(id, newTag) ==
    /\ HandleTagChange(id, newTag)
    /\ UserOperation
    /\ DebouncedSaveEffect(TRUE)
    /\ UNCHANGED <<canvas, metaStore, imageStore, saves, loadClosures, drawClosures,
                   isSaving, lastSaved, codeMode, clipboard>>

StoreDrawComposite(k) ==
    /\ DrawComposite(k)
    /\ DebouncedSaveEffect(FALSE)
    /\ UNCHANGED <<canvas, metaStore, imageStore, saves, reset,
                   loadClosures, drawClosures,
                   isSaving, lastSaved, codeMode, clipboard>>

(* finish, lines 228-238: the composite is installed and saved at once with
   the sprites, buildItems and mode drawComposite closed over *)
StoreDrawFinished(k) ==
    /\ DrawFinished(k)
    /\ Len(saves) < MaxSaves
    /\ saves' = Append(saves,
                       triggerSave(drawClosures[k].sprites, drawClosures[k].buildItems,
                                   [width |-> draws[k].width, height |-> draws[k].height],
                                   drawClosures[k].mode, imageSrc'))
    /\ drawClosures' = RemoveAt(drawClosures, k)
    /\ DebouncedSaveEffect(TRUE)
    /\ isSaving' = TRUE
    /\ UNCHANGED <<canvas, metaStore, imageStore, reset, loadClosures,
                   lastSaved, codeMode, clipboard>>

(* The page is opened plainly or at a link that holds one rectangle *)
StoreHashes ==
    { <<>>, HashV1 \o <<"a", ":", "0", ",", "0", ",", "1", "0", ",", "1", "0">> }

InitStore ==
    /\ now = 1
    /\ hash \in StoreHashes
    /\ FreshApp
    /\ StoreFresh

NextStore ==
    \/ Mount
    \/ \E k \in 1..MaxSaves : LoadSession(k)
    \/ \E size \in ImageSizes : StoreHandlePaste(size)
    \/ \E k \in 1..Len(loads) : StorePasteBitmapReady(k)
    \/ \E k \in 1..Len(loads) : StorePasteRestoreLoaded(k)
    \/ \E k \in 1..Len(loads) : StorePasteItemLoaded(k)
    \/ \E i \in 1..Len(sprites) : StoreDeleteSprite(i)
    \/ \E i \in 1..Len(sprites), newTag \in StoreTags :
          StoreHandleTagChange(sprites[i].id, newTag)
    \/ \E k \in 1..Len(draws) : StoreDrawComposite(k)
    \/ \E k \in 1..Len(draws) : StoreDrawFinished(k)
    \/ SaveTimeout
    \/ \E k \in 1..MaxSaves : FetchedBlob(k)
    \/ \E k \in 1..MaxSaves : PutMeta(k)
    \/ \E k \in 1..MaxSaves : PutBlob(k)
    \/ ClearAll
    \/ ClearCommitted

SpecStore == InitStore /\ [][NextStore]_vars

(* C15: the save issued when the drawing of a re-pack finishes carries the
   rectangles, the pending items and the dimensions of the layout just
   drawn, together with the new composite. *)
C15_SaveMatchesEdit ==
    [][ \A k \in 1..Len(draws) :
            StoreDrawFinished(k) =>
                LET args == saves'[Len(saves')].args IN
                /\ args.sprites = NewSprites(draws[k].items)
                /\ [i \in 1..Len(args.buildItems) |-> args.buildItems[i].id]
                       = [i \in 1..Len(draws[k].items) |-> draws[k].items[i].id]
                /\ args.dimensions = [width |-> draws[k].width, height |-> draws[k].height]
                /\ args.blob = imageSrc' ]_vars

(* C16: at most one countdown of the debounced save is pending, only while
   a raster is installed, and it carries the state after the last change. *)
C16_DebounceCoalesces ==
    /\ Len(timers) <= 1
    /\ timers # <<>> => (imageSrc # NoImage /\ timers[1] = Closure)

C16_Witness ==
    /\ timers = <<>>
    /\ Len(saves) = 1 /\ saves[1].stage = "fetch" /\ saves[1].closure = Closure
    /\ Len(sprites) = 1 /\ sprites[1].name = <<"b">>

(* Nothing is scheduled or in flight *)
Quiescent ==
    /\ timers = <<>> /\ saves = <<>>
    /\ loads = <<>> /\ draws = <<>>

(* C17: once clearAll and everything that was scheduled or in flight when
   it started have settled, both stores are empty. *)
C17_ResetErases ==
    (reset = "settled" /\ Quiescent) => (metaStore = Null /\ imageStore = Null)

(* C18: a step that empties one of the two stores empties both. *)
C18_ClearIsAtomic ==
    [][ ((metaStore # Null /\ metaStore' = Null) \/ (imageStore # Null /\ imageStore' = Null))
        => (metaStore' = Null /\ imageStore' = Null) ]_vars

C18_Witness ==
    /\ reset = "settled"
    /\ metaStore = Null /\ imageStore = Null
    /\ \E k \in 1..Len(saves) : saves[k].stage = "blob"

(* C20: when a save ends, overlapping with other saves or not, both stores
   hold what that save was given (a reset that emptied the metadata store
   meanwhile set aside). *)
C20_SaveReplacesBoth ==
    [][ \A k \in 1..Len(saves) :
            (PutBlob(k) /\ metaStore # Null)
                => (/\ metaStore' = saves[k].metadata
                    /\ imageStore' = saves[k].args.blob) ]_vars

----------------------------------------------------------------------------
(* SpecSave: one triggerSave call for every bounded argument list, over
   stores that are empty or hold an earlier record and that commit or reject
   each put, then a reload *)

SaveSprites ==
    { <<>>, <<[id |-> MsId(1), name |-> <<"a">>, x |-> 0, y |-> 0, w |-> 100, h |-> 50]>> }
SaveBuildItems ==
    { <<>>, <<[id |-> MsId(1), name |-> <<"a">>, tag |-> <<"a">>, w |-> 100, h |-> 50,
               imgElement |-> TRUE, originalSrc |-> "ok"]>> }
SaveModes == {"analyze", "build"}
SaveBlobs == { Null, [kind |-> "composite", width |-> 102, height |-> 50] }
EarlierRecords ==
    { Absent,
      [metadata |-> Metadata(<<>>, <<>>, [width |-> 8, height |-> 8], "analyze", 0),
       blob |-> [kind |-> "file", width |-> 8, height |-> 8]] }

InitSave ==
    /\ now = 1 /\ rnd = 0 /\ hash = <<>> /\ mounted = TRUE
    /\ sprites \in SaveSprites
    /\ buildItems \in SaveBuildItems
    /\ mode \in SaveModes
    /\ imageDimensions = [width |-> 102, height |-> 50]
    /\ imageSrc = [kind |-> "composite", width |-> 102, height |-> 50]
    /\ isDrawing = FALSE /\ startPos = Origin /\ currentRect = NoRect
    /\ loads = <<>> /\ draws = <<>> /\ explode = Idle
    /\ canvas = Idle /\ timers = <<>> /\ reset = "none"
    /\ loadClosures = <<>> /\ drawClosures = <<>>
    /\ isSaving = TRUE /\ lastSaved = Null /\ codeMode = "scss" /\ clipboard = Null
    /\ \E earlier \in EarlierRecords :
          IF earlier = Absent
          THEN metaStore = Null /\ imageStore = Null
          ELSE metaStore = earlier.metadata /\ imageStore = earlier.blob
    /\ \E currentBlob \in SaveBlobs :
          saves = <<triggerSave(sprites, buildItems, imageDimensions, mode, currentBlob)>>

NextSave ==
    \/ \E k \in 1..MaxSaves : PutMeta(k)
    \/ \E k \in 1..MaxSaves : PutBlob(k)
    \/ \E k \in 1..MaxSaves : PutMetaRejected(k)
    \/ \E k \in 1..MaxSaves : PutBlobRejected(k)
    \/ Reload
    \/ Mount
    \/ \E k \in 1..MaxSaves : LoadSession(k)

SpecSave == InitSave /\ [][NextSave]_vars

(* The step that ends the triggerSave call k *)
SaveEnds(k) ==
    \/ PutMeta(k) /\ saves[k].args.blob = Null
    \/ PutBlob(k)

(* C19: a load made right after a save ends returns the metadata and the
   raster that save was given, with or without a raster and over empty or
   filled stores. *)
C19_SaveThenLoad ==
    [][ \A k \in 1..Len(saves) :
            SaveEnds(k) =>
                /\ LoadResult' # Absent
                /\ LoadResult'.metadata.sprites = saves[k].args.sprites
                /\ LoadResult'.metadata.buildItems = StripHandles(saves[k].args.buildItems)
                /\ LoadResult'.metadata.dimensions = saves[k].args.dimensions
                /\ LoadResult'.metadata.mode = saves[k].args.mode
                /\ LoadResult'.blob = saves[k].args.blob ]_vars

----------------------------------------------------------------------------
(* SpecRestored: the page is opened over a saved session of analyze mode,
   whose rectangles are then renamed and deleted, saved by the debounced
   effect, and reset *)

SavedSessions ==
    { [metadata |->
          Metadata(<<[id |-> MsId(1), name |-> <<"a">>, x |-> 0, y |-> 0, w |-> 10, h |-> 10],
                     [id |-> MsId(2), name |-> <<"c">>, x |-> 12, y |-> 0, w |-> 10, h |-> 10]>>,
                   <<>>, [width |-> 100, height |-> 50], "analyze", 0),
       blob |-> [kind |-> "file", width |-> 100, height |-> 50]] }

InitRestored ==
    /\ now = 1
    /\ hash = <<>>
    /\ FreshApp
    /\ canvas = Idle /\ timers = <<>> /\ saves = <<>> /\ reset = "none"
    /\ loadClosures = <<>> /\ drawClosures = <<>>
    /\ isSaving = FALSE /\ lastSaved = Null /\ codeMode = "scss" /\ clipboard = Null
    /\ \E saved \in SavedSessions :
          metaStore = saved.metadata /\ imageStore = saved.blob

NextRestored ==
    \/ Mount
    \/ \E k \in 1..MaxSaves : LoadSession(k)
    \/ \E i \in 1..Len(sprites) : StoreDeleteSprite(i)
    \/ \E i \in 1..Len(sprites), newTag \in StoreTags :
          StoreHandleTagChange(sprites[i].id, newTag)
    \/ SaveTimeout
    \/ \E k \in 1..MaxSaves : FetchedBlob(k)
    \/ \E k \in 1..MaxSaves : PutMeta(k)
    \/ \E k \in 1..MaxSaves : PutBlob(k)
    \/ ClearAll
    \/ ClearCommitted

SpecRestored == InitRestored /\ [][NextRestored]_vars

(* C21: when a put of triggerSave is rejected, the call ends all the same,
   the session in memory is what it was, the saving flag is lowered and the
   last-saved time is not moved. *)
C21_SaveFailureContained ==
    [][ \A k \in 1..Len(saves) :
            (PutMetaRejected(k) \/ PutBlobRejected(k))
                => (/\ saves' = RemoveAt(saves, k)
                    /\ isSaving' = FALSE
                    /\ lastSaved' = lastSaved
                    /\ UNCHANGED <<sprites, buildItems, imageDimensions, mode,
                                   imageSrc>>) ]_vars

(* The blob put of a save was rejected after its metadata were committed *)
C21_Witness ==
    /\ saves = <<>> /\ mounted
    /\ isSaving = FALSE /\ lastSaved = Null
    /\ sprites # <<>>
    /\ metaStore # Null /\ metaStore.timestamp = 1
    /\ imageStore = Null

----------------------------------------------------------------------------
(* The generated code, lines 535-577.  A generated text is a sequence of
   pieces: the literal parts of the templates are pieces of their own, and a
   name or a number is spelled one character a piece. *)

Undefined == [undefined |-> TRUE]
Text(pieces) == [text |-> pieces]

(* The three buttons of the output panel, line 852 *)
CodeModes == {"scss", "css", "json"}

RECURSIVE Concat(_)
Concat(texts) ==
    IF texts = <<>> THEN <<>> ELSE Head(texts) \o Concat(Tail(texts))

(* lines 538-560 *)
ScssEntry(s) ==
    <<"  '">> \o s.name \o <<"': (x: -">> \o NumberToText(s.x) \o <<"px, y: -">>
    \o NumberToText(s.y) \o <<"px, w: ">> \o NumberToText(s.w) \o <<"px, h: ">>
    \o NumberToText(s.h) \o <<"px),\n">>

ScssCode(rs, dimensions) ==
    <<"/* Generated by Sprite Builder */\n/* Binary Source Size: ">>
    \o NumberToText(dimensions.width) \o <<"x">> \o NumberToText(dimensions.height)
    \o <<"px */\n\n// 1. Config Map\n$sprite-image: 'sprites.png';\n$sprite-width: ">>
    \o NumberToText(dimensions.width) \o <<"px;\n$sprite-height: ">>
    \o NumberToText(dimensions.height) \o <<"px;\n\n$sprites: (\n">>
    \o Concat([i \in 1..Len(rs) |-> ScssEntry(rs[i])])
    \o <<");\n\n// 2. Mixin: Reference by Tag Name\n@mixin sprite($name) {\n",
         "  $icon: map-get($sprites, $name);\n",
         "  background-image: url(#{$sprite-image});\n",
         "  background-repeat: no-repeat;\n",
         "  background-size: $sprite-width $sprite-height;\n",
         "  background-position: map-get($icon, 'x') map-get($icon, 'y');\n",
         "  width: map-get($icon, 'w');\n  height: map-get($icon, 'h');\n  \n",
         "  // UX: Disable default touch actions for better gesture control\n",
         "  touch-action: none;\n}\n\n",
         "// 3. Highlight Helper (GPU Accelerated)\n",
         "// Perfect for click/touch feedback on transparent PNGs\n",
         "@mixin sprite-highlight($scale: 1.1) {\n",
         "  filter: drop-shadow(0 4px 6px rgba(0,0,0,0.2)) brightness(1.1);\n",
         "  transform: scale($scale);\n",
         "  transition: transform 0.1s ease, filter 0.1s ease;\n}\n\n",
         "// Usage:\n// .btn-play { @include sprite('start-btn'); }\n",
         "// .btn-play:active { @include sprite-highlight; }">>

(* lines 562-568 *)
CssRule(s) ==
    <<"/* Tag: ">> \o s.name \o <<" */\n.">> \o s.name \o <<" {\n  width: ">>
    \o NumberToText(s.w) \o <<"px;\n  height: ">> \o NumberToText(s.h)
    \o <<"px;\n  background-position: -">> \o NumberToText(s.x) \o <<"px -">>
    \o NumberToText(s.y) \o <<"px;\n}\n">>

CssCode(rs, dimensions) ==
    <<"/* Base Class */\n.sprite {\n  background-image: url('sprites.png');\n",
      "  background-repeat: no-repeat;\n  display: inline-block;\n",
      "  background-size: ">>
    \o NumberToText(dimensions.width) \o <<"px ">>
    \o NumberToText(dimensions.height) \o <<"px;\n}\n\n">>
    \o Concat([i \in 1..Len(rs) |-> CssRule(rs[i])])

(* A property key that is an integer index: the canonical decimal spelling
   of a non-negative integer.  (The names of the model are far below the
   2^32 - 1 where the indices end.) *)
IsIntegerIndex(key) ==
    /\ key # <<>>
    /\ \A i \in 1..Len(key) : IsDigit(key[i])
    /\ NatToText(DecimalValue(key)) = key

(* map[key] = value on an ordinary object, line 573: the value of a key
   already there is replaced in place, a new key is added after the others.
   props holds the properties in the order of their creation. *)
SetProperty(props, key, value) ==
    IF \E i \in 1..Len(props) : props[i].key = key
    THEN [i \in 1..Len(props) |->
             IF props[i].key = key THEN [key |-> key, value |-> value] ELSE props[i]]
    ELSE Append(props, [key |-> key, value |-> value])

(* sprites.forEach(s => { map[s.name] = {...} }) over the first n, 572-574 *)
RECURSIVE MapUpTo(_, _)
MapUpTo(rs, n) ==
    IF n = 0 THEN <<>>
    ELSE SetProperty(MapUpTo(rs, n - 1), rs[n].name,
                     [x |-> rs[n].x, y |-> rs[n].y, width |-> rs[n].w, height |-> rs[n].h])

(* The properties of props that satisfy Keep, in the order of props *)
RECURSIVE SelectProps(_, _)
SelectProps(props, keep) ==
    IF props = <<>> THEN <<>>
    ELSE IF keep[1] THEN <<Head(props)>> \o SelectProps(Tail(props), Tail(keep))
    ELSE SelectProps(Tail(props), Tail(keep))

(* Integer-index properties in ascending order of the index *)
RECURSIVE AscendingIndices(_)
AscendingIndices(props) ==
    IF props = <<>> THEN <<>>
    ELSE LET least == CHOOSE i \in 1..Len(props) :
                         \A j \in 1..Len(props) :
                             DecimalValue(props[i].key) <= DecimalValue(props[j].key)
         IN <<props[least]>> \o AscendingIndices(RemoveAt(props, least))

(* The own properties of an object in the order JSON.stringify visits them:
   the integer indices in ascending order, then the other keys in the order
   of their creation *)
OwnProperties(props) ==
    AscendingIndices(SelectProps(props, [i \in 1..Len(props) |-> IsIntegerIndex(props[i].key)]))
    \o SelectProps(props, [i \in 1..Len(props) |-> ~IsIntegerIndex(props[i].key)])

(* The JSON spelling of a string: quotes and backslashes are escaped *)
QuoteJson(text) ==
    <<"\"">>
    \o Concat([i \in 1..Len(text) |->
                  IF text[i] \in {"\"", "\\"} THEN <<"\\", text[i]>> ELSE <<text[i]>>])
    \o <<"\"">>

(* One property of the map under JSON.stringify(map, null, 2) *)
JsonEntry(prop) ==
    <<"  ">> \o QuoteJson(prop.key) \o <<": {\n    \"x\": ">>
    \o NumberToText(prop.value.x) \o <<",\n    \"y\": ">>
    \o NumberToText(prop.value.y) \o <<",\n    \"width\": ">>
    \o NumberToText(prop.value.width) \o <<",\n    \"height\": ">>
    \o NumberToText(prop.value.height) \o <<"\n  }">>

(* JSON.stringify(map, null, 2) of a map given by its properties in the
   order they are visited, line 575 *)
JsonStringify(props) ==
    IF props = <<>> THEN <<"{}">>
    ELSE <<"{\n">> \o Join([i \in 1..Len(props) |-> JsonEntry(props[i])], ",\n")
         \o <<"\n}">>

(* generateCode, lines 535-577: no branch follows the three formats, so the
   function ends without a return for any other codeMode *)
generateCode(rs, dimensions, format) ==
    IF Len(rs) = 0 THEN Text(<<"/* Paste images to generate Mixins */">>)
    ELSE IF format = "scss" THEN Text(ScssCode(rs, dimensions))
    ELSE IF format = "css" THEN Text(CssCode(rs, dimensions))
    ELSE IF format = "json" THEN Text(JsonStringify(OwnProperties(MapUpTo(rs, Len(rs)))))
    ELSE Undefined

(* A format button is pressed, line 855 *)
SetCodeMode(m) ==
    /\ m \in CodeModes
    /\ codeMode' = m
    /\ UNCHANGED <<now, rnd, hash, mounted, mode, imageSrc, imageDimensions, sprites,
                   buildItems, isDrawing, startPos, currentRect, loads, draws, explode,
                   canvas, metaStore, imageStore, timers, saves, reset,
                   loadClosures, drawClosures, isSaving, lastSaved, clipboard>>

(* copyToClipboard, lines 579-583: the clipboard is handed generateCode() *)
CopyToClipboard ==
    /\ clipboard' = generateCode(sprites, imageDimensions, codeMode)
    /\ UNCHANGED <<now, rnd, hash, mounted, mode, imageSrc, imageDimensions, sprites,
                   buildItems, isDrawing, startPos, currentRect, loads, draws, explode,
                   canvas, metaStore, imageStore, timers, saves, reset,
                   loadClosures, drawClosures, isSaving, lastSaved, codeMode>>

----------------------------------------------------------------------------
(* SpecCode: generateCode over every bounded rectangle list and every format
   name, those of the three buttons and one that is none of them *)

MaxCodeRects == 2    \* longest rectangle list of SpecCode

CodeNames == { <<"a">>, <<"2">>, <<"1", "0">> }
CodeFormats == CodeModes \cup {"xml"}

CodeRectAt(i, name) ==
    [id |-> MsId(i), name |-> name, x |-> 12 * (i - 1), y |-> 0, w |-> 10, h |-> 10]

CodeInputs ==
    { [i \in 1..Len(names) |-> CodeRectAt(i, names[i])] :
          names \in SeqsUpTo(CodeNames, MaxCodeRects) }

InitCode ==
    /\ now = 1 /\ rnd = 0 /\ hash = <<>> /\ mounted = TRUE
    /\ mode = "analyze"
    /\ imageSrc = [kind |-> "file", width |-> 100, height |-> 50]
    /\ imageDimensions = [width |-> 100, height |-> 50]
    /\ sprites \in CodeInputs
    /\ buildItems = <<>>
    /\ isDrawing = FALSE /\ startPos = Origin /\ currentRect = NoRect
    /\ loads = <<>> /\ draws = <<>> /\ explode = Idle
    /\ canvas = Idle /\ metaStore = Null /\ imageStore = Null
    /\ timers = <<>> /\ saves = <<>> /\ reset = "none"
    /\ loadClosures = <<>> /\ drawClosures = <<>>
    /\ isSaving = FALSE /\ lastSaved = Null
    /\ codeMode \in CodeFormats
    /\ clipboard = Null

NextCode ==
    \/ \E m \in CodeModes : SetCodeMode(m)
    \/ CopyToClipboard

SpecCode == InitCode /\ [][NextCode]_vars

(* C22: generating for a format that is none of scss, css and json gives a
   rejection that can be told as one: not an undefined result, not an empty
   text and not the text of any supported format. *)
C22_UnsupportedRejected ==
    [][ (CopyToClipboard /\ codeMode \notin CodeModes)
            => (/\ clipboard' # Undefined
                /\ clipboard' # Text(<<>>)
                /\ \A m \in CodeModes :
                       clipboard' # generateCode(sprites, imageDimensions, m)) ]_vars

(* The entries the rectangles give when taken one by one in their order *)
EntriesInOrder(rs) ==
    [i \in 1..Len(rs) |->
        [key |-> rs[i].name,
         value |-> [x |-> rs[i].x, y |-> rs[i].y, width |-> rs[i].w, height |-> rs[i].h]]]

DistinctNames(rs) ==
    \A i, j \in 1..Len(rs) : rs[i].name = rs[j].name => i = j

(* C23: for rectangles of pairwise distinct names the json output has one
   entry for each rectangle, under its name and with its x, y, width and
   height, the entries following the order of the rectangles. *)
C23_JsonInRectangleOrder ==
    [][ (CopyToClipboard /\ codeMode = "json" /\ sprites # <<>> /\ DistinctNames(sprites))
            => clipboard' = Text(JsonStringify(EntriesInOrder(sprites))) ]_vars

----------------------------------------------------------------------------
(* SpecExplode: explodeSprites over every bounded rectangle list of a loaded
   sheet, its slices finishing in any order, then the re-pack and its draw *)

MaxExplodeRects == 2     \* longest rectangle list of SpecExplode

ExplodeSizes == { [w |-> 10, h |-> 10], [w |-> 20, h |-> 30], [w |-> 600, h |-> 8] }

ExplodeRectAt(i, size) ==
    [id |-> MsId(i), name |-> IconName(i), x |-> 0, y |-> 40 * (i - 1),
     w |-> size.w, h |-> size.h]

ExplodeInputs ==
    { [i \in 1..Len(sizes) |-> ExplodeRectAt(i, sizes[i])] :
          sizes \in SeqsUpTo(ExplodeSizes, MaxExplodeRects) \ {<<>>} }

InitExplode ==
    /\ now = 1 /\ rnd = 0 /\ hash = <<>> /\ mounted = TRUE
    /\ mode = "analyze"
    /\ imageSrc = [kind |-> "file", width |-> 700, height |-> 100]
    /\ imageDimensions = [width |-> 700, height |-> 100]
    /\ sprites \in ExplodeInputs
    /\ buildItems = <<>>
    /\ isDrawing = FALSE /\ startPos = Origin /\ currentRect = NoRect
    /\ loads = <<>> /\ draws = <<>> /\ explode = Idle
    /\ StoreFresh

NextExplode ==
    \/ Tick /\ StoreAside
    \/ ExplodeStart /\ StoreAside
    \/ ExplodeImageLoaded /\ StoreAside
    \/ \E i \in 1..MaxExplodeRects : ExplodeSliceLoaded(i) /\ StoreAside
    \/ ExplodeGathered /\ StoreAside
    \/ \E k \in 1..Len(draws) : DrawComposite(k) /\ StoreAside
    \/ \E k \in 1..Len(draws) : DrawFinished(k) /\ StoreAside

SpecExplode == InitExplode /\ [][NextExplode]_vars

(* C24: explodeSprites hands on one item for each rectangle, in the order of
   the rectangles whatever the order the slices finished in; item i has the
   name, the width and the height of rectangle i, and an id that no
   rectangle and no other item has. *)
C24_ExplodeKeepsOrder ==
    [][ ExplodeGathered =>
            LET rects == explode.rects IN
            /\ Len(buildItems') = Len(rects)
            /\ \A i \in 1..Len(rects) :
                   /\ buildItems'[i].name = rects[i].name
                   /\ buildItems'[i].tag = rects[i].name
                   /\ buildItems'[i].w = rects[i].w
                   /\ buildItems'[i].h = rects[i].h
                   /\ \A j \in 1..Len(rects) : buildItems'[i].id # rects[j].id
                   /\ \A j \in 1..Len(rects) :
                          buildItems'[i].id = buildItems'[j].id => i = j ]_vars

(* Two rectangles were exploded and the slice of the second finished first *)
C24_Witness ==
    /\ mode = "build" /\ explode = Idle
    /\ Len(buildItems) = 2
    /\ buildItems[1].name = IconName(1) /\ buildItems[2].name = IconName(2)
    /\ buildItems[2].id < buildItems[1].id

(* C25: the re-pack that ends explodeSprites gives as many rectangles as
   were exploded, of the same total area. *)
C25_ExplodeKeepsArea ==
    [][ ExplodeGathered =>
            /\ Len(sprites') = Len(explode.rects)
            /\ TotalArea(sprites') = TotalArea(explode.rects) ]_vars

(* Two rectangles of different sizes were exploded, packed again and drawn *)
C25_Witness ==
    /\ mode = "build" /\ explode = Idle /\ draws = <<>>
    /\ imageSrc.kind = "composite"
    /\ Len(sprites) = 2 /\ Len(buildItems) = 2
    /\ sprites[1].w # sprites[2].w

(* C26: no pending item of the persisted metadata holds a decoded image or
   a reference to pixel data. *)
C26_NoPixelHandle ==
    metaStore # Null =>
        \A i \in 1..Len(metaStore.buildItems) :
            /\ ~metaStore.buildItems[i].imgElement
            /\ metaStore.buildItems[i].originalSrc = "none"

----------------------------------------------------------------------------
(* SpecRepack: a build-mode session whose items are packed and drawn, and
   from which items are then deleted one after another, each deletion
   packing and drawing the rest again *)

MaxRepackItems == 3      \* pending items at the start of SpecRepack

RepackWidths == {100, 300}

RepackItemAt(i, w) ==
    [id |-> MsId(i), name |-> SpriteName(i), tag |-> SpriteName(i), w |-> w, h |-> 50,
     imgElement |-> TRUE, originalSrc |-> "ok"]

RepackInputs ==
    { [i \in 1..MaxRepackItems |-> RepackItemAt(i, ws[i])] :
          ws \in [1..MaxRepackItems -> RepackWidths] }

InitRepack ==
    /\ now = 1 /\ rnd = 0 /\ hash = <<>> /\ mounted = TRUE
    /\ mode = "build"
    /\ buildItems \in RepackInputs
    /\ LET c == PackCursor(buildItems) IN
       /\ imageDimensions = [width |-> FinalWidth(c), height |-> FinalHeight(c)]
       /\ sprites = NewSprites(c.positionedItems)
       /\ imageSrc = [kind |-> "composite", width |-> FinalWidth(c),
                      height |-> FinalHeight(c)]
    /\ isDrawing = FALSE /\ startPos = Origin /\ currentRect = NoRect
    /\ loads = <<>> /\ draws = <<>> /\ explode = Idle
    /\ StoreFresh

NextRepack ==
    \/ \E i \in 1..Len(sprites) : DeleteSprite(i) /\ StoreAside
    \/ \E k \in 1..Len(draws) : DrawComposite(k) /\ StoreAside
    \/ \E k \in 1..Len(draws) : DrawFinished(k) /\ StoreAside

SpecRepack == InitRepack /\ [][NextRepack]_vars

(* C27: once the draws of all re-packs have settled, in whatever order, the
   installed composite is the one drawn for the last re-pack: it has the
   dimensions that re-pack computed for the rectangles now in the list. *)
C27_LastRepackInstalled ==
    (draws = <<>> /\ buildItems # <<>>)
        => imageSrc = [kind |-> "composite", width |-> imageDimensions.width,
                       height |-> imageDimensions.height]

----------------------------------------------------------------------------
(* SpecFinish: drawComposite called with every bounded list of items that
   can all be drawn, the empty list among them, each item holding its
   decoded image or an originalSrc that decodes *)

FinishWidths == {100, 300, 600}
DecodableSources ==
    { px \in PixelSources : px.imgElement \/ px.originalSrc = "ok" }

FinishInputs ==
    UNION { { [i \in 1..k |-> DrawItemAt(i, ws[i], ps[i])] :
                ws \in [1..k -> FinishWidths], ps \in [1..k -> DecodableSources] } :
            k \in 0..MaxDrawItems }

InitFinish ==
    /\ now = 1 /\ rnd = 0 /\ hash = <<>> /\ mounted = TRUE
    /\ mode = "build" /\ imageSrc = NoImage
    /\ buildItems \in FinishInputs
    /\ LET c == PackCursor(buildItems) IN
       /\ imageDimensions = [width |-> FinalWidth(c), height |-> FinalHeight(c)]
       /\ sprites = NewSprites(c.positionedItems)
       /\ canvas = [active |-> TRUE, stage |-> "scheduled", items |-> c.positionedItems,
                    width |-> FinalWidth(c), height |-> FinalHeight(c),
                    itemsLoaded |-> 0, drawn |-> <<>>, decoding |-> {}, blob |-> Null,
                    finished |-> 0]
    /\ isDrawing = FALSE /\ startPos = Origin /\ currentRect = NoRect
    /\ loads = <<>> /\ draws = <<>> /\ explode = Idle
    /\ metaStore = Null /\ imageStore = Null /\ timers = <<>> /\ saves = <<>>
    /\ reset = "none" /\ loadClosures = <<>> /\ drawClosures = <<>>
    /\ isSaving = FALSE /\ lastSaved = Null /\ codeMode = "scss" /\ clipboard = Null

NextFinish ==
    \/ DrawCompositeCall
    \/ \E j \in 1..MaxDrawItems : ImgOnload(j)
    \/ ToBlobCallback

SpecFinish == InitFinish /\ [][NextFinish]_vars

(* drawComposite has returned and no decode of it is pending *)
DrawRanOut ==
    /\ canvas.active
    /\ canvas.stage # "scheduled"
    /\ canvas.decoding = {}

(* C28: a draw whose items can all be drawn calls finish never more than
   once, and exactly once by the time nothing of it is left to run, also
   when it has no item. *)
C28_FinishOnce ==
    /\ canvas.active => canvas.finished <= 1
    /\ DrawRanOut => canvas.finished = 1

(* Two items, the first drawn at once and the second after its decode *)
C28_Witness ==
    /\ DrawRanOut /\ canvas.stage = "emitted"
    /\ Len(canvas.items) = 2
    /\ canvas.items[1].imgElement /\ ~canvas.items[2].imgElement
    /\ canvas.finished = 1

----------------------------------------------------------------------------
(* SpecPaste: images pasted one after another into a page opened plainly,
   each paste at any moment of the decode, re-pack and draw of the others,
   and rectangles deleted in between *)

InitPaste ==
    /\ now = 1
    /\ hash = <<>>
    /\ FreshApp
    /\ StoreFresh

NextPaste ==
    \/ Tick /\ StoreAside
    \/ MountHashEffect /\ StoreAside
    \/ \E size \in ImageSizes : HandlePaste(size) /\ StoreAside
    \/ \E k \in 1..Len(loads) : PasteBitmapReady(k) /\ StoreAside
    \/ \E k \in 1..Len(loads) : PasteRestoreLoaded(k) /\ StoreAside
    \/ \E k \in 1..Len(loads) : PasteItemLoaded(k) /\ StoreAside
    \/ \E i \in 1..Len(sprites) : DeleteSprite(i) /\ StoreAside
    \/ \E k \in 1..Len(draws) : DrawComposite(k) /\ StoreAside
    \/ \E k \in 1..Len(draws) : DrawFinished(k) /\ StoreAside

SpecPaste == InitPaste /\ [][NextPaste]_vars

(* C29: every pasted image goes on to become a pending item; when its decode
   ends the pending items grow by that one item, at the end of the list, and
   the re-pack gives one rectangle for each pending item, with the same ids
   in the same order. *)
C29_NoPasteLost ==
    [][ \A k \in 1..Len(loads) :
            /\ PasteBitmapReady(k) => loads'[k].kind = "pasteItem"
            /\ PasteItemLoaded(k) =>
                   /\ Len(buildItems') = Len(buildItems) + 1
                   /\ SubSeq(buildItems', 1, Len(buildItems)) = buildItems
                   /\ [i \in 1..Len(sprites') |-> sprites'[i].id]
                          = [i \in 1..Len(buildItems') |-> buildItems'[i].id] ]_vars

----------------------------------------------------------------------------
(* SpecLoad: the page is opened, plainly or at a link, over stores that
   hold a metadata record, a raster, both or neither, and loadSession reads
   them or fails to *)

StoredMetadata ==
    { Metadata(sp, bi, [width |-> 102, height |-> 50], md, 0) :
          sp \in SaveSprites, bi \in SaveBuildItems, md \in SaveModes }

StoredBlobs == { [kind |-> "composite", width |-> 102, height |-> 50] }

InitLoad ==
    /\ now = 1
    /\ hash \in StoreHashes
    /\ FreshApp
    /\ canvas = Idle /\ timers = <<>> /\ saves = <<>> /\ reset = "none"
    /\ loadClosures = <<>> /\ drawClosures = <<>>
    /\ isSaving = FALSE /\ lastSaved = Null /\ codeMode = "scss" /\ clipboard = Null
    /\ metaStore \in StoredMetadata \cup {Null}
    /\ imageStore \in StoredBlobs \cup {Null}

NextLoad ==
    \/ Mount
    \/ \E k \in 1..MaxSaves : LoadSession(k)
    \/ \E k \in 1..MaxSaves : LoadSessionRejected(k)

SpecLoad == InitLoad /\ [][NextLoad]_vars

(* C30: when loadSession ends, either the stores held both a metadata record
   and a raster and the mode, the rectangles, the pending items, the
   dimensions and the raster were all restored from them, or the session in
   memory is what it was. *)
C30_RestoreAllOrNothing ==
    [][ \A k \in 1..Len(saves) :
            /\ LoadSession(k) =>
                   IF metaStore # Null /\ imageStore # Null
                   THEN /\ mode' = metaStore.mode
                        /\ sprites' = metaStore.sprites
                        /\ buildItems' = metaStore.buildItems
                        /\ imageDimensions' = metaStore.dimensions
                        /\ imageSrc' = imageStore
                   ELSE UNCHANGED <<mode, sprites, buildItems, imageDimensions, imageSrc>>
            /\ LoadSessionRejected(k) =>
                   UNCHANGED <<mode, sprites, buildItems, imageDimensions, imageSrc>> ]_vars

(* The page was opened at a link over a metadata record without a raster,
   and loadSession has ended: the rectangle of the link is still there *)
C30_Witness ==
    /\ mounted /\ saves = <<>>
    /\ metaStore # Null /\ imageStore = Null
    /\ Len(sprites) = 1 /\ imageSrc = NoImage /\ buildItems = <<>>
    /\ metaStore.sprites # sprites

====
